---- MODULE Spec2Model ----
(***************************************************************************)
(* A model of rws-framework/ai-tools.                                      *)
(*                                                                         *)
(*   Spec       OpenAIRateLimitingService: one executeWithRateLimit call   *)
(*              on a service whose p-queue runs the batch tasks.           *)
(*   SpecChunk  TextChunker.chunkText, as the machine that walks           *)
(*              recursiveSplit and the forceSplitByCharacterLimit loop.    *)
(*   SpecSearch OptimizedVectorSearchService: searchSimilar,               *)
(*              searchSimilarCompat, batchSearch and clearCache.           *)
(*   SpecRag    LangChainRAGService over its per-knowledge vector files,   *)
(*              with the LangChainEmbeddingService it depends on.          *)
(*   SpecFair   executeWithRateLimit under fair scheduling.                *)
(*   SpecScatter executeWithRateLimit with executor arrays of any length.  *)
(*   SpecBackoff one callWithRetry with the sleeps it makes.               *)
(*   SpecWait, SpecWaitFair  EmbedLoader.waitForInit.                      *)
(*   SpecQueues OpenAIRateLimitingService while initialize and             *)
(*              updateConfig replace its queue.                            *)
(*   SpecStore  LangChainVectorStoreService over a memory vector store.    *)
(***************************************************************************)
EXTENDS Integers, Sequences, FiniteSets, TLC

VARIABLES
    config,        \* this.config: [concurrency, maxRetries, tpm]
    tokenizer,     \* this.tokenizer is set (tiktoken knows the model)
    items,         \* the call's items: items[i] is the token count of item i
    extractor,     \* the call was given a tokenExtractor
    call,          \* "idle" | "running" | "returned" | "rejected"
    task,          \* one record per entry of batchStarts (the queue's jobs)
    results,       \* the results array; Unset marks a hole
    writes,        \* how many times each slot of results has been assigned
    ctext,         \* chunkText: text
    cmaxTokens,    \* chunkText: maxTokens
    coverlap,      \* chunkText: overlap
    cseps,         \* chunkText: separators
    cpc,           \* "start" | "run" | "done"
    stack,         \* the frames of recursiveSplit, innermost last
    cresult,       \* what chunkText returned
    knowledgeVectors,     \* the knowledge sets the caller holds and passes to a search
    queryTexts,           \* how many distinct query texts the caller uses
    queryEmbeddingCache,  \* OptimizedVectorSearchService: the Map's keys, oldest first
    lastCall,             \* the last call made on a service, and how it ended
    ragInitialized,       \* LangChainRAGService.isInitialized
    embInitialized,       \* LangChainEmbeddingService.isInitialized
    files,                \* files/vectors/knowledge/knowledge_<id>.json, by <id>
    cwr,                  \* one callWithRetry: position, attempt, and the sleeps it made
    waiters,              \* EmbedLoader: one record per waitForInit call
    lvInitialized,        \* LangChainVectorStoreService.isInitialized
    lvConfig,             \* LangChainVectorStoreService.config
    vectorStore,          \* the documents held by the underlying vector store
    documents,            \* LangChainVectorStoreService.documents: ids of the Map, with their document
    documentCount,        \* LangChainVectorStoreService.documentCount
    now,                  \* Date.now()
    lvCall,               \* the last searchSimilar on the vector store service, and its response
    qconfig,              \* OpenAIRateLimitingService.config.concurrency while queues are replaced
    queues,               \* every PQueue the service created; this.queue is the last
    jobs                  \* the batch jobs added to those queues

rlVars == <<config, tokenizer, items, extractor, call, task, results, writes>>
chVars == <<ctext, cmaxTokens, coverlap, cseps, cpc, stack, cresult>>
svVars == <<knowledgeVectors, queryTexts, queryEmbeddingCache, lastCall,
            ragInitialized, embInitialized, files>>
rtVars == <<cwr>>
wiVars == <<waiters>>
lvVars == <<lvInitialized, lvConfig, vectorStore, documents, documentCount, now, lvCall>>
pqVars == <<qconfig, queues, jobs>>
xVars == <<rtVars, wiVars, lvVars, pqVars>>
vars == <<rlVars, chVars, svVars, xVars>>

(***************************************************************************)
(* Bounds of the model.                                                    *)
(***************************************************************************)
MaxItems == 129
MaxTokItems == 2
MaxConcurrency == 2
MaxRetriesBound == 1
MaxTextLen == 5
MaxTokens == 1
MaxOverlap == 3
MaxForceChunks == 6
\* chunks in one search, over all its sets
MaxChunks == 2
\* the largest maxResults a request supplies
MaxResults == 1
\* distinct query texts of the caller that fills the cache
MaxQueries == 101
\* queries in one batchSearch
MaxBatch == 2
\* knowledge ids of the RAG service
MaxKnowledge == 2
\* items of the one large batch of the fair specification: enough for six
\* shrink attempts
ShrinkItems == 33
\* outputs an executor may return beyond one per item
MaxExtraOutputs == 1
\* retry ceiling of the callWithRetry whose sleeps are observed
MaxBackoffRetries == 3
\* calls of waitForInit on one EmbedLoader
MaxWaiters == 2
\* PQueue objects one service creates, and batch jobs added to them
MaxQueues == 3
MaxJobs == 3
\* documents in the vector store, documents in one addDocuments, clock values
MaxStoreDocs == 2
MaxAddDocs == 2
MaxNow == 1

(***************************************************************************)
(* Program constants.                                                      *)
(***************************************************************************)
DefaultTpm == 300000
DefaultConcurrency == 4
FallbackBatchSize == 128
ShrinkAttempts == 6
MinTokensPerCall == 1000
StatusTooManyRequests == 429
MaxCacheSize == 100
DefaultMaxResults == 5
CompatDefaultMaxResults == 10
\* Thresholds and scores are in thousandths: 0.1 is 100.
DefaultThreshold == 100
\* callWithRetry: Math.min(60_000, ...) and Math.random() * 300
BackoffCap == 60000
JitterRange == 300
\* waitForInit: if (i > 9)
TickCeiling == 9
\* LangChainVectorStoreService defaults: maxResults 10, similarityThreshold 0.1
LvDefaultMaxResults == 10
LvDefaultThreshold == 100

Unset == 0
TokenSizes == {600, 1300}
\* The statuses an executor's rejection can carry: throttled, 5xx, another
\* status, and no status at all (err.status and err.response.status absent).
NoStatus == 0
FailureStatuses == {StatusTooManyRequests, 503, 400, NoStatus}

Max(a, b) == IF a >= b THEN a ELSE b
Min(a, b) == IF a <= b THEN a ELSE b
CeilHalf(n) == (n + 1) \div 2

\* What the executor returns for the item at position k of items.
Out(k) == k

(***************************************************************************)
(* executeWithRateLimit: the batch partition.                              *)
(***************************************************************************)
\* Math.max(1000, floor(floor(tpm * safetyFactor / concurrency) / 60)),
\* safetyFactor = 0.75.
MaxTokensPerCall(cfg) ==
    Max(MinTokensPerCall, (((cfg.tpm * 3) \div 4) \div cfg.concurrency) \div 60)

\* chunkByToken: the lengths of the batches it yields, in order.
RECURSIVE ChunkByTokenFrom(_, _, _, _, _)
ChunkByTokenFrom(its, i, batchLen, tokens, maxTok) ==
    IF i > Len(its)
    THEN IF batchLen > 0 THEN <<batchLen>> ELSE <<>>
    ELSE IF batchLen > 0 /\ tokens + its[i] > maxTok
         THEN <<batchLen>> \o ChunkByTokenFrom(its, i + 1, 1, its[i], maxTok)
         ELSE ChunkByTokenFrom(its, i + 1, batchLen + 1, tokens + its[i], maxTok)

\* A chunkByToken that never closes a batch before the last item.
ChunkByTokenUnbounded(its, maxTok) == IF Len(its) > 0 THEN <<Len(its)>> ELSE <<>>

ChunkByToken(its, maxTok) == ChunkByTokenFrom(its, 1, 0, 0, maxTok)

\* fallbackChunking: slices of itemsPerBatch items.
RECURSIVE FallbackFrom(_, _, _)
FallbackFrom(n, i, itemsPerBatch) ==
    IF i >= n THEN <<>>
    ELSE <<Min(n, i + itemsPerBatch) - i>> \o FallbackFrom(n, i + itemsPerBatch, itemsPerBatch)

FallbackChunking(its, itemsPerBatch) == FallbackFrom(Len(its), 0, itemsPerBatch)

Batches(its, tok, ext, cfg) ==
    IF tok /\ ext THEN ChunkByToken(its, MaxTokensPerCall(cfg))
    ELSE FallbackChunking(its, FallbackBatchSize)

\* batchStarts: { start: idx, batch } with idx += batch.length.
RECURSIVE BatchStartsFrom(_, _, _)
BatchStartsFrom(lens, k, idx) ==
    IF k > Len(lens) THEN <<>>
    ELSE <<[start |-> idx, len |-> lens[k]]>> \o BatchStartsFrom(lens, k + 1, idx + lens[k])

BatchStarts(lens) == BatchStartsFrom(lens, 1, 0)

(***************************************************************************)
(* The p-queue: jobs start in the order they were added, while fewer than  *)
(* `concurrency` of them are pending.                                      *)
(***************************************************************************)
InProgress(tk) == {t \in DOMAIN tk : tk[t].pc \in {"calling", "backoff", "pause"}}
Queued(tk) == {t \in DOMAIN tk : tk[t].pc = "queued"}
Settled(tk) == {t \in DOMAIN tk : tk[t].pc \in {"done", "failed"}}

\* A queue that admits one job too many.
CanStartOffByOne(pending, concurrency) == pending <= concurrency

CanStart(pending, concurrency) == pending < concurrency

\* A started job runs to its first await: executor(attemptBatch) is in flight.
RECURSIVE TryToStartAnother(_, _)
TryToStartAnother(tk, cfg) ==
    IF Queued(tk) # {} /\ CanStart(Cardinality(InProgress(tk)), cfg.concurrency)
    THEN LET t == CHOOSE q \in Queued(tk) : \A r \in Queued(tk) : q <= r
         IN TryToStartAnother(
                [tk EXCEPT ![t].pc = "calling", ![t].calls = 1, ![t].cwrCalls = 1], cfg)
    ELSE tk

NewTask(meta) ==
    [pc |-> "queued", start |-> meta.start, len |-> meta.len, size |-> meta.len,
     attempt |-> 0, retry |-> 0, err |-> NoStatus,
     calls |-> 0, cwrCalls |-> 0, fails |-> 0, only429 |-> TRUE, wrote |-> 0]

(***************************************************************************)
(* callWithRetry's classification and the shrink loop's.                   *)
(***************************************************************************)
\* A classifier that also retries client errors.
IsRateLimitAnyError(status) == status >= 400 /\ status < 600

IsRateLimit(status) == status = 429 \/ (status >= 500 /\ status < 600)

\* callWithRetry rethrows when !isRateLimit || attempt >= maxRetries.
\* A retry ceiling reached one attempt early.
RethrowsOneEarly(status, attempt, maxRetries) ==
    ~IsRateLimit(status) \/ attempt + 1 >= maxRetries

\* A retry ceiling reached one attempt late.
RethrowsOneLate(status, attempt, maxRetries) ==
    ~IsRateLimit(status) \/ attempt > maxRetries

Rethrows(status, attempt, maxRetries) == ~IsRateLimit(status) \/ attempt >= maxRetries

\* The shrink loop's catch: only a 429 on a batch of more than one item shrinks.
Shrinks(status, size) == status = StatusTooManyRequests /\ size > 1

\* results[meta.start + i] = batchResults[i], i < batchResults.length; an
\* assignment past the end of a JavaScript array lengthens it with holes.
\* A scatter that forgets the batch's offset.
ScatterIndexNoStart(start, i) == i

ScatterIndex(start, i) == start + i

ScatterWrite(res, start, outs) ==
    LET last == IF Len(outs) = 0 THEN 0 ELSE ScatterIndex(start, Len(outs))
        n == Max(Len(res), last)
    IN [j \in 1..n |->
          IF \E i \in 1..Len(outs) : ScatterIndex(start, i) = j
          THEN outs[CHOOSE i \in 1..Len(outs) : ScatterIndex(start, i) = j]
          ELSE IF j <= Len(res) THEN res[j] ELSE Unset]

ScatterCount(wr, start, outs) ==
    LET last == IF Len(outs) = 0 THEN 0 ELSE ScatterIndex(start, Len(outs))
        n == Max(Len(wr), last)
    IN [j \in 1..n |->
          (IF j <= Len(wr) THEN wr[j] ELSE 0)
          + (IF \E i \in 1..Len(outs) : ScatterIndex(start, i) = j THEN 1 ELSE 0)]

\* executor(attemptBatch): one output per item of attemptBatch, the first
\* `size` items of meta.batch.
ExecutorOutputs(start, size) == [i \in 1..size |-> Out(start + i)]

(***************************************************************************)
(* TextChunker.  A string is a sequence of one-character strings.          *)
(***************************************************************************)
Whitespace == {" ", "\n"}
Alphabet == {"a", "b", " ", "."}

DefaultSeparators ==
    << <<"\n", "\n">>, <<"\n">>, <<".", " ">>, <<"!", " ">>, <<"?", " ">>,
       <<";", " ">>, <<",", " ">>, <<" ">>, <<>> >>
\* Custom lists that do not end in the empty string.
CustomSeparators == { << <<" ">> >>, << <<".", " ">>, <<" ">> >> }
SeparatorLists == {DefaultSeparators} \cup CustomSeparators

\* Math.ceil(text.length / 3.7)
EstimateTokens(text) == (10 * Len(text) + 36) \div 37

\* Math.floor(maxTokens * 3.5)
MaxCharsPerChunk(maxTokens) == (7 * maxTokens) \div 2

\* text.substring(from, to), 0-based, to exclusive.
Substring(text, from, to) == SubSeq(text, from + 1, to)

RECURSIVE TrimStart(_)
TrimStart(text) ==
    IF text # <<>> /\ Head(text) \in Whitespace THEN TrimStart(Tail(text)) ELSE text

RECURSIVE TrimEnd(_)
TrimEnd(text) ==
    IF text # <<>> /\ text[Len(text)] \in Whitespace
    THEN TrimEnd(SubSeq(text, 1, Len(text) - 1)) ELSE text

\* String.prototype.trim
Trim(text) == TrimEnd(TrimStart(text))

\* text.startsWith(prefix)
StartsWith(text, prefix) ==
    Len(prefix) <= Len(text) /\ SubSeq(text, 1, Len(prefix)) = prefix

\* separator occurs in text at 0-based offset i.
MatchAt(text, i, separator) ==
    i + Len(separator) <= Len(text) /\ Substring(text, i, i + Len(separator)) = separator

\* text.includes(separator)
Includes(text, separator) == \E i \in 0..Len(text) : MatchAt(text, i, separator)

\* text.split(separator) for a non-empty separator: left to right, matches
\* do not overlap.
RECURSIVE JsSplitFrom(_, _, _, _)
JsSplitFrom(text, separator, i, from) ==
    IF i >= Len(text) THEN <<Substring(text, from, Len(text))>>
    ELSE IF MatchAt(text, i, separator)
         THEN <<Substring(text, from, i)>>
              \o JsSplitFrom(text, separator, i + Len(separator), i + Len(separator))
         ELSE JsSplitFrom(text, separator, i + 1, from)

JsSplit(text, separator) ==
    IF separator = <<>> THEN [k \in 1..Len(text) |-> <<text[k]>>]
    ELSE JsSplitFrom(text, separator, 0, 0)

ShouldPreserveSeparator(separator) ==
    separator \in { <<".", " ">>, <<"!", " ">>, <<"?", " ">>, <<";", " ">> }

RECURSIVE NonEmptyOnly(_)
NonEmptyOnly(chunks) ==
    IF chunks = <<>> THEN <<>>
    ELSE (IF Len(Head(chunks)) > 0 THEN <<Head(chunks)>> ELSE <<>>)
         \o NonEmptyOnly(Tail(chunks))

RECURSIVE SplitPieces(_, _, _)
SplitPieces(splits, separator, i) ==
    IF i > Len(splits) THEN <<>>
    ELSE LET piece == IF i = Len(splits) THEN splits[i]
                      ELSE splits[i] \o (IF ShouldPreserveSeparator(separator)
                                         THEN separator ELSE <<>>)
         IN (IF Trim(piece) # <<>> THEN <<Trim(piece)>> ELSE <<>>)
            \o SplitPieces(splits, separator, i + 1)

SplitTextBySeparator(text, separator) ==
    IF separator = <<>> THEN JsSplit(text, separator)
    ELSE IF ~Includes(text, separator) THEN <<text>>
    ELSE NonEmptyOnly(SplitPieces(JsSplit(text, separator), separator, 1))

\* extractOverlap
RECURSIVE WordBoundaryFrom(_, _)
WordBoundaryFrom(text, startPosition) ==
    IF startPosition < Len(text) /\ text[startPosition + 1] # " "
    THEN WordBoundaryFrom(text, startPosition + 1)
    ELSE startPosition

ExtractOverlap(text, overlapLength) ==
    IF Len(text) <= overlapLength THEN text
    ELSE LET startPosition == WordBoundaryFrom(text, Len(text) - overlapLength)
         IN IF startPosition >= Len(text)
            THEN Substring(text, Len(text) - overlapLength, Len(text))
            ELSE Substring(text, startPosition + 1, Len(text))

\* A variant of the push that never prepends the previous chunk's overlap.
WithOverlapNeverPrepended(chunks, i, overlap) == Trim(chunks[i])

\* The chunk addOverlapsBetweenChunks pushes at index i (1-based).
WithOverlap(chunks, i, overlap) ==
    IF i > 1
    THEN LET prevOverlap == ExtractOverlap(chunks[i - 1], overlap)
         IN IF prevOverlap # <<>> /\ ~StartsWith(chunks[i], prevOverlap)
            THEN Trim(prevOverlap \o <<" ">> \o chunks[i])
            ELSE Trim(chunks[i])
    ELSE Trim(chunks[i])

AddOverlapsBetweenChunks(chunks, overlap) ==
    IF Len(chunks) <= 1 \/ overlap <= 0 THEN chunks
    ELSE [i \in 1..Len(chunks) |-> WithOverlap(chunks, i, overlap)]

\* The loop of mergeChunksWithOverlap from chunks[i] on: mergedChunks so far
\* and currentChunk.
RECURSIVE MergeFrom(_, _, _, _, _)
MergeFrom(chunks, i, mergedChunks, currentChunk, maxChars) ==
    IF i > Len(chunks)
    THEN IF Trim(currentChunk) # <<>>
         THEN Append(mergedChunks, Trim(currentChunk)) ELSE mergedChunks
    ELSE LET combined == IF currentChunk # <<>>
                         THEN currentChunk \o <<" ">> \o chunks[i] ELSE chunks[i]
         IN IF Len(combined) <= maxChars
            THEN MergeFrom(chunks, i + 1, mergedChunks, combined, maxChars)
            ELSE MergeFrom(chunks, i + 1,
                           IF currentChunk # <<>>
                           THEN Append(mergedChunks, Trim(currentChunk))
                           ELSE mergedChunks,
                           chunks[i], maxChars)

MergeChunksWithOverlap(chunks, maxChars, overlap) ==
    IF Len(chunks) = 0 THEN <<>>
    ELSE AddOverlapsBetweenChunks(MergeFrom(chunks, 1, <<>>, <<>>, maxChars), overlap)

\* A frame of recursiveSplit(text, maxChars, overlap, separators): the
\* separators left for deeper calls, the splits and the index of the one being
\* processed, finalChunks, and the state of forceSplitByCharacterLimit when it
\* runs on the current split.
NewFrame(text, separators) ==
    LET separator == IF separators = <<>> THEN <<"undefined">> ELSE separators[1]
        newSeparators == IF separators = <<>> \/ separator = <<>>
                         THEN <<>> ELSE Tail(separators)
    IN [newSeparators |-> newSeparators,
        splits |-> SplitTextBySeparator(text, separator),
        i |-> 1, finalChunks |-> <<>>,
        forcing |-> FALSE, position |-> 0, chunks |-> <<>>]

Top == stack[Len(stack)]
SetTop(frame) == [stack EXCEPT ![Len(stack)] = frame]
CurrentSplit == Top.splits[Top.i]
MaxChars == MaxCharsPerChunk(cmaxTokens)

\* forceSplitByCharacterLimit: where the scan goes after a chunk was pushed.
NextPosition(endPosition, overlap) ==
    IF endPosition - overlap < 0 THEN 0 ELSE endPosition - overlap

(***************************************************************************)
(* TextChunker.chunkText as an operator, for the services that call it.    *)
(***************************************************************************)
\* forceSplitByCharacterLimit, the loop from position on.
RECURSIVE ForceSplitFrom(_, _, _, _)
ForceSplitFrom(text, maxChars, overlap, position) ==
    IF position >= Len(text) THEN <<>>
    ELSE LET endPosition == position + maxChars
         IN IF endPosition >= Len(text)
            THEN LET lastChunk == Trim(Substring(text, position, Len(text)))
                 IN IF lastChunk # <<>> THEN <<lastChunk>> ELSE <<>>
            ELSE <<Trim(Substring(text, position, endPosition))>>
                 \o ForceSplitFrom(text, maxChars, overlap,
                                   NextPosition(endPosition, overlap))

ForceSplitByCharacterLimit(text, maxChars, overlap) ==
    NonEmptyOnly(ForceSplitFrom(text, maxChars, overlap, 0))

RECURSIVE RecursiveSplit(_, _, _, _)
RECURSIVE FinalChunksFrom(_, _, _, _, _)
\* recursiveSplit, the loop over the splits from splits[i] on.
FinalChunksFrom(splits, i, maxChars, overlap, newSeparators) ==
    IF i > Len(splits) THEN <<>>
    ELSE (IF Len(splits[i]) <= maxChars THEN <<splits[i]>>
          ELSE IF newSeparators = <<>>
               THEN ForceSplitByCharacterLimit(splits[i], maxChars, overlap)
               ELSE RecursiveSplit(splits[i], maxChars, overlap, newSeparators))
         \o FinalChunksFrom(splits, i + 1, maxChars, overlap, newSeparators)

RecursiveSplit(text, maxChars, overlap, separators) ==
    LET frame == NewFrame(text, separators)
    IN MergeChunksWithOverlap(
           FinalChunksFrom(frame.splits, 1, maxChars, overlap, frame.newSeparators),
           maxChars, overlap)

ChunkTextOf(text, maxTokens, overlap, separators) ==
    IF Len(text) = 0 \/ Len(Trim(text)) = 0 THEN <<>>
    ELSE IF EstimateTokens(text) <= maxTokens THEN <<Trim(text)>>
    ELSE RecursiveSplit(text, MaxCharsPerChunk(maxTokens), overlap, separators)

(***************************************************************************)
(* The search and RAG services: values.                                    *)
(***************************************************************************)
\* An optional field of a request: absent, or supplied with a value.
Absent == <<>>
Supplied(v) == <<v>>
\* A destructuring default, { field = d }: d only when the field is absent.
OrDefault(field, d) == IF field = Absent THEN d ELSE field[1]
\* field || d: d when the field is absent and also when it is 0.
OrIfFalsy(field, d) == IF field = Absent \/ field[1] = 0 THEN d ELSE field[1]

\* A knowledge id is a number or a string; n stands for its digits.
NumberId(n) == [type |-> "number", n |-> n]
StringId(n) == [type |-> "string", n |-> n]
\* String(knowledgeId)
JsString(knowledgeId) == StringId(knowledgeId.n)

\* The embedding provider: one vector per text, two-dimensional.
QueryEmbedding(query) == IF query % 2 = 1 THEN <<1, 0>> ELSE <<0, 1>>
EmbedOf(text) == IF text[Len(text)] = "a" THEN <<1, 0>> ELSE <<0, 1>>

\* A stored chunk: content, embedding (valid is FALSE when the field is
\* missing or not an array) and the metadata indexKnowledge writes.
Chunk(content, valid, embedding, knowledgeId, chunkIndex) ==
    [content |-> content, valid |-> valid, embedding |-> embedding,
     knowledgeId |-> knowledgeId, chunkIndex |-> chunkIndex]

\* cosineSimilarity throws for these two vectors.
LengthsDiffer(vecA, vecB) == Len(vecA) # Len(vecB)

RECURSIVE DotFrom(_, _, _)
DotFrom(vecA, vecB, i) ==
    IF i > Len(vecA) THEN 0 ELSE vecA[i] * vecB[i] + DotFrom(vecA, vecB, i + 1)

\* cosineSimilarity of two vectors of one length.  The score
\* dotProduct / (sqrt(normA) * sqrt(normB)) is kept exactly, as the signed
\* square num / den; scores are compared by cross-multiplication.
CosineSimilarity(vecA, vecB) ==
    LET dotProduct == DotFrom(vecA, vecB, 1)
        normA == DotFrom(vecA, vecA, 1)
        normB == DotFrom(vecB, vecB, 1)
    IN [num |-> IF dotProduct >= 0 THEN dotProduct * dotProduct
                ELSE 0 - dotProduct * dotProduct,
        den |-> normA * normB]

\* A threshold given in thousandths, as a score.
ThresholdScore(t) ==
    [num |-> IF t >= 0 THEN t * t ELSE 0 - t * t, den |-> 1000000]

\* a >= b on scores.
ScoreGeq(a, b) == a.num * b.den >= b.num * a.den

(***************************************************************************)
(* OptimizedVectorSearchService.                                           *)
(***************************************************************************)
\* The chunks of the knowledge sets in the order the search meets them,
\* each with the knowledgeId of its set.
RECURSIVE AllChunks(_)
AllChunks(vectors) ==
    IF vectors = <<>> THEN <<>>
    ELSE [c \in 1..Len(Head(vectors).chunks) |->
             [knowledgeId |-> Head(vectors).knowledgeId, chunk |-> Head(vectors).chunks[c]]]
         \o AllChunks(Tail(vectors))

\* Some chunk that is scored makes cosineSimilarity throw.
ScoringThrows(vectors, queryEmbedding) ==
    \E s \in 1..Len(vectors) : \E c \in 1..Len(vectors[s].chunks) :
        /\ vectors[s].chunks[c].valid
        /\ LengthsDiffer(queryEmbedding, vectors[s].chunks[c].embedding)

\* similarity >= threshold
Keeps(similarity, threshold) == ScoreGeq(similarity, ThresholdScore(threshold))

\* The candidate pushed for a chunk.
Candidate(entry, queryEmbedding) ==
    [content |-> entry.chunk.content,
     score |-> CosineSimilarity(queryEmbedding, entry.chunk.embedding),
     knowledgeId |-> entry.knowledgeId,
     metadataKnowledgeId |-> entry.chunk.knowledgeId,
     chunkIndex |-> entry.chunk.chunkIndex]

RECURSIVE CandidatesFrom(_, _, _, _)
CandidatesFrom(entries, i, queryEmbedding, threshold) ==
    IF i > Len(entries) THEN <<>>
    ELSE (IF /\ entries[i].chunk.valid
             /\ Keeps(CosineSimilarity(queryEmbedding, entries[i].chunk.embedding), threshold)
          THEN <<Candidate(entries[i], queryEmbedding)>> ELSE <<>>)
         \o CandidatesFrom(entries, i + 1, queryEmbedding, threshold)

\* A variant of the insertion that puts a candidate before those of its score.
RECURSIVE InsertBeforeEqualScores(_, _)
InsertBeforeEqualScores(sorted, candidate) ==
    IF sorted = <<>> THEN <<candidate>>
    ELSE IF ~ScoreGeq(candidate.score, Head(sorted).score)
         THEN <<Head(sorted)>> \o InsertBeforeEqualScores(Tail(sorted), candidate)
         ELSE <<candidate>> \o sorted

\* Array.prototype.sort with (a, b) => b.score - a.score is stable: a
\* candidate goes after every candidate already placed whose score is not
\* lower.
RECURSIVE InsertByScore(_, _)
InsertByScore(sorted, candidate) ==
    IF sorted = <<>> THEN <<candidate>>
    ELSE IF ScoreGeq(Head(sorted).score, candidate.score)
         THEN <<Head(sorted)>> \o InsertByScore(Tail(sorted), candidate)
         ELSE <<candidate>> \o sorted

RECURSIVE SortByScoreFrom(_, _, _)
SortByScoreFrom(candidates, i, sorted) ==
    IF i > Len(candidates) THEN sorted
    ELSE SortByScoreFrom(candidates, i + 1, InsertByScore(sorted, candidates[i]))

SortByScore(candidates) == SortByScoreFrom(candidates, 1, <<>>)

\* list.slice(0, n) for n >= 0
Slice(list, n) == SubSeq(list, 1, Min(n, Len(list)))

\* The scan, sort and truncation that searchSimilar and searchWithEmbedding
\* share: it rejects when cosineSimilarity throws.
SearchWithEmbedding(vectors, queryEmbedding, maxResults, threshold) ==
    IF ScoringThrows(vectors, queryEmbedding)
    THEN [raised |-> TRUE, results |-> <<>>, totalCandidates |-> 0]
    ELSE [raised |-> FALSE,
          results |-> Slice(SortByScore(CandidatesFrom(AllChunks(vectors), 1,
                                                       queryEmbedding, threshold)),
                            maxResults),
          totalCandidates |-> Len(AllChunks(vectors))]

CacheHas(cache, query) == \E i \in 1..Len(cache) : cache[i] = query

\* getQueryEmbedding on a miss: what the cache holds afterwards.
CacheInsert(cache, query) ==
    Append(IF Len(cache) >= MaxCacheSize THEN Tail(cache) ELSE cache, query)

\* queryEmbeddingCache.set(query, ...) in batchSearch.
CacheSet(cache, query) == IF CacheHas(cache, query) THEN cache ELSE Append(cache, query)

\* searchSimilar on a request whose maxResults and threshold are optional
\* fields; embedOk tells whether embedText answers when it is called.
SearchSimilarOf(cache, vectors, query, maxResults, threshold, embedOk) ==
    LET embedded == CacheHas(cache, query) \/ embedOk
        found == SearchWithEmbedding(vectors, QueryEmbedding(query),
                                     OrDefault(maxResults, DefaultMaxResults),
                                     OrDefault(threshold, DefaultThreshold))
    IN [cache |-> IF CacheHas(cache, query) \/ ~embedOk THEN cache
                  ELSE CacheInsert(cache, query),
        embedded |-> embedded,
        raised |-> ~embedded \/ found.raised,
        results |-> IF embedded THEN found.results ELSE <<>>,
        totalCandidates |-> IF embedded THEN found.totalCandidates ELSE 0]

\* A variant of the filter that looks the knowledgeId up as it is.
AllowedWithoutString(knowledgeId, allowList) ==
    \E i \in 1..Len(allowList) : allowList[i] = knowledgeId

\* filter.knowledgeIds.includes(String(vector.knowledgeId))
Allowed(knowledgeId, allowList) ==
    \E i \in 1..Len(allowList) : allowList[i] = JsString(knowledgeId)

\* searchSimilarCompat: the knowledge sets left by the filter.
FilterVectors(vectors, filter) ==
    IF filter = Absent \/ filter[1] = <<>> THEN vectors
    ELSE SelectSeq(vectors, LAMBDA v : Allowed(v.knowledgeId, filter[1]))

\* batchSearch from queries[i] on: the cache and the responses so far.
RECURSIVE BatchSearchFrom(_, _, _, _, _, _, _)
BatchSearchFrom(cache, vectors, queries, i, maxResults, threshold, responses) ==
    IF i > Len(queries)
    THEN [cache |-> cache, raised |-> FALSE, responses |-> responses]
    ELSE LET found == SearchWithEmbedding(vectors, QueryEmbedding(queries[i]),
                                          maxResults, threshold)
         IN IF found.raised
            THEN [cache |-> CacheSet(cache, queries[i]), raised |-> TRUE,
                  responses |-> <<>>]
            ELSE BatchSearchFrom(CacheSet(cache, queries[i]), vectors, queries, i + 1,
                                 maxResults, threshold,
                                 Append(responses,
                                        [query |-> queries[i], results |-> found.results,
                                         totalCandidates |-> found.totalCandidates]))

(***************************************************************************)
(* LangChainEmbeddingService and LangChainRAGService.                      *)
(***************************************************************************)
\* The chunkConfig the embedding service is initialized with.
ChunkConfig == [chunkSize |-> 1, chunkOverlap |-> 0]

\* LangChainEmbeddingService.chunkText
EmbeddingChunkText(text) ==
    ChunkTextOf(text,
                IF ChunkConfig.chunkSize = 0 THEN 450 ELSE ChunkConfig.chunkSize,
                IF ChunkConfig.chunkOverlap = 0 THEN 50 ELSE ChunkConfig.chunkOverlap,
                DefaultSeparators)

\* A vector file: missing, or holding a chunk list.
NoFile == [exists |-> FALSE, chunks |-> <<>>]
FileOf(chunks) == [exists |-> TRUE, chunks |-> chunks]

\* getKnowledgeVectorPath: the file of a knowledge id, knowledge_<id>.json.
KnowledgeVectorPath(knowledgeId) == JsString(knowledgeId).n

\* indexKnowledge: the chunk objects made of the chunks and their embeddings.
ChunksWithEmbeddings(knowledgeId, chunks) ==
    [index \in 1..Len(chunks) |->
        Chunk(chunks[index], TRUE, EmbedOf(chunks[index]), knowledgeId, index - 1)]

\* The id indexKnowledge gives a chunk, knowledge_<knowledgeId>_chunk_<index>.
ChunkId(chunk) == [knowledgeId |-> chunk.knowledgeId, chunkIndex |-> chunk.chunkIndex]

\* A variant of the save that adds the chunks to those already in the file.
SaveKnowledgeVectorAppending(store, knowledgeId, chunks) ==
    [store EXCEPT ![KnowledgeVectorPath(knowledgeId)] = FileOf(@.chunks \o chunks)]

\* saveKnowledgeVector: writeFileSync replaces the file.
SaveKnowledgeVector(store, knowledgeId, chunks) ==
    [store EXCEPT ![KnowledgeVectorPath(knowledgeId)] = FileOf(chunks)]

\* loadKnowledgeVectorWithEmbeddings: a missing file gives no chunks.
LoadKnowledgeVectorWithEmbeddings(store, knowledgeId) ==
    IF ~store[KnowledgeVectorPath(knowledgeId)].exists THEN [chunks |-> <<>>]
    ELSE [chunks |-> store[KnowledgeVectorPath(knowledgeId)].chunks]

\* searchKnowledge: the knowledge vectors loaded for the ids of the request.
LoadedVectors(store, knowledgeIds) ==
    [k \in 1..Len(knowledgeIds) |->
        [knowledgeId |-> knowledgeIds[k],
         chunks |-> LoadKnowledgeVectorWithEmbeddings(store, knowledgeIds[k]).chunks]]

\* The record of a call: what was asked and how it ended.
NoCall ==
    [service |-> "none", op |-> "none", initialized |-> FALSE,
     query |-> 0, queries |-> <<>>, maxResults |-> Absent, threshold |-> Absent,
     filter |-> Absent, knowledgeIds |-> <<>>, content |-> <<>>,
     embedded |-> FALSE, raised |-> FALSE, success |-> FALSE,
     results |-> <<>>, totalCandidates |-> 0, chunks |-> <<>>, chunkIds |-> <<>>,
     responses |-> <<>>]

NoFiles == [n \in 1..MaxKnowledge |-> NoFile]

\* The caller awaits every call: no call is under way and none has settled
\* without the caller having read its outcome.
CallerIdle == lastCall = NoCall

\* The services before any call, as the other specifications leave them.
SvIdle ==
    /\ knowledgeVectors = <<>>
    /\ queryTexts = 0
    /\ queryEmbeddingCache = <<>>
    /\ lastCall = NoCall
    /\ ragInitialized = FALSE
    /\ embInitialized = FALSE
    /\ files = NoFiles

\* No callWithRetry has been made.
RtIdle == cwr = [pc |-> "idle", baseBackoffMs |-> 500, maxRetries |-> 6,
                 attempt |-> 0, sleeps |-> <<>>]

\* No waitForInit has been called.
WiIdle == waiters = <<>>

\* A LangChainVectorStoreService that has not been initialized.
LvIdle ==
    /\ lvInitialized = FALSE
    /\ lvConfig = <<>>
    /\ vectorStore = <<>>
    /\ documents = <<>>
    /\ documentCount = 0
    /\ now = 0
    /\ lvCall = <<>>

\* The rate limiter as constructed: DEFAULT_CONFIG.concurrency and one queue.
PqIdle ==
    /\ qconfig = DefaultConcurrency
    /\ queues = <<DefaultConcurrency>>
    /\ jobs = <<>>

XIdle == RtIdle /\ WiIdle /\ LvIdle /\ PqIdle

(***************************************************************************)
(* Init                                                                    *)
(***************************************************************************)
Configs == [concurrency : 1..MaxConcurrency, maxRetries : 0..MaxRetriesBound,
            tpm : {DefaultTpm}]

RlInit ==
    /\ config \in Configs
    /\ \/ /\ tokenizer \in BOOLEAN
          /\ extractor \in BOOLEAN
          /\ \E n \in 0..MaxTokItems : items \in [1..n -> TokenSizes]
       \/ /\ tokenizer = FALSE
          /\ extractor = TRUE
          /\ \E n \in (MaxTokItems + 1)..MaxItems : items = [i \in 1..n |-> 600]
    /\ call = "idle"
    /\ task = <<>>
    /\ results = <<>>
    /\ writes = <<>>

ChIdle ==
    /\ ctext = <<>>
    /\ cmaxTokens = 1
    /\ coverlap = 0
    /\ cseps = <<>>
    /\ cpc = "done"
    /\ stack = <<>>
    /\ cresult = <<>>

Init == RlInit /\ ChIdle /\ SvIdle /\ XIdle

(***************************************************************************)
(* Actions of executeWithRateLimit                                         *)
(***************************************************************************)
\* Lines 64-86: partition, batchStarts, new Array(items.length), queue.add
\* of every batch.
ExecuteWithRateLimit ==
    /\ call = "idle"
    /\ LET metas == BatchStarts(Batches(items, tokenizer, extractor, config))
       IN task' = TryToStartAnother([t \in 1..Len(metas) |-> NewTask(metas[t])], config)
    /\ results' = [i \in 1..Len(items) |-> Unset]
    /\ writes' = [i \in 1..Len(items) |-> 0]
    /\ call' = "running"
    /\ UNCHANGED <<config, tokenizer, items, extractor, chVars, svVars, xVars>>

\* Lines 91-95: the executor resolved; scatter its outputs, break, the job
\* resolves and the queue starts the next one.
ExecutorSucceeds(t) ==
    /\ task[t].pc = "calling"
    /\ LET outs == ExecutorOutputs(task[t].start, task[t].size)
       IN /\ results' = ScatterWrite(results, task[t].start, outs)
          /\ writes' = ScatterCount(writes, task[t].start, outs)
          /\ task' = TryToStartAnother(
                 [task EXCEPT ![t].pc = "done", ![t].wrote = Len(outs)], config)
    /\ UNCHANGED <<config, tokenizer, items, extractor, call, chVars, svVars, xVars>>

\* Lines 174-189 and 96-108: the executor rejected with `status`.
ExecutorFails(t, status) ==
    /\ task[t].pc = "calling"
    /\ LET tk == [task EXCEPT ![t].err = status,
                              ![t].fails = @ + 1,
                              ![t].only429 = @ /\ status = StatusTooManyRequests]
       IN IF ~Rethrows(status, task[t].retry, config.maxRetries)
          THEN task' = [tk EXCEPT ![t].pc = "backoff"]
          ELSE IF Shrinks(status, task[t].size)
               THEN task' = [tk EXCEPT ![t].pc = "pause",
                                       ![t].size = CeilHalf(task[t].size)]
               ELSE task' = TryToStartAnother([tk EXCEPT ![t].pc = "failed"], config)
    /\ UNCHANGED <<config, tokenizer, items, extractor, call, results, writes, chVars, svVars, xVars>>

\* Lines 186-188: the backoff sleep is over; callWithRetry(fn, attempt + 1).
BackoffElapsed(t) ==
    /\ task[t].pc = "backoff"
    /\ task' = [task EXCEPT ![t].pc = "calling", ![t].retry = @ + 1, ![t].err = NoStatus,
                            ![t].calls = @ + 1, ![t].cwrCalls = @ + 1]
    /\ UNCHANGED <<config, tokenizer, items, extractor, call, results, writes, chVars, svVars, xVars>>

\* Lines 104-105 and 89: the shrink pause is over; continue with attempt + 1,
\* and leave the loop when attempt reaches 6.
PauseElapsed(t) ==
    /\ task[t].pc = "pause"
    /\ IF task[t].attempt + 1 < ShrinkAttempts
       THEN task' = [task EXCEPT ![t].pc = "calling", ![t].attempt = @ + 1,
                               ![t].retry = 0, ![t].err = NoStatus,
                               ![t].calls = @ + 1, ![t].cwrCalls = 1]
       ELSE task' = TryToStartAnother(
                [task EXCEPT ![t].pc = "done", ![t].attempt = @ + 1,
                             ![t].err = NoStatus], config)
    /\ UNCHANGED <<config, tokenizer, items, extractor, call, results, writes, chVars, svVars, xVars>>

\* Promise.all over the jobs: rejected as soon as one job rejects, fulfilled
\* when all have resolved.
PromiseAllRejected(tk) == \E t \in DOMAIN tk : tk[t].pc = "failed"
\* Promise.allSettled in place of Promise.all.
PromiseAllSettled(tk) == \A t \in DOMAIN tk : tk[t].pc \in {"done", "failed"}

PromiseAllFulfilled(tk) == \A t \in DOMAIN tk : tk[t].pc = "done"

\* Line 85: await Promise.all(...) throws.
CallRejects ==
    /\ call = "running"
    /\ PromiseAllRejected(task)
    /\ call' = "rejected"
    /\ UNCHANGED <<config, tokenizer, items, extractor, task, results, writes, chVars, svVars, xVars>>

\* Lines 113-114: await queue.onIdle(); return results.
CallReturns ==
    /\ call = "running"
    /\ PromiseAllFulfilled(task)
    /\ InProgress(task) = {} /\ Queued(task) = {}
    /\ call' = "returned"
    /\ UNCHANGED <<config, tokenizer, items, extractor, task, results, writes, chVars, svVars, xVars>>

Next ==
    \/ ExecuteWithRateLimit
    \/ \E t \in DOMAIN task : ExecutorSucceeds(t)
    \/ \E t \in DOMAIN task, status \in FailureStatuses : ExecutorFails(t, status)
    \/ \E t \in DOMAIN task : BackoffElapsed(t)
    \/ \E t \in DOMAIN task : PauseElapsed(t)
    \/ CallRejects
    \/ CallReturns

Spec == Init /\ [][Next]_vars

(***************************************************************************)
(* executeWithRateLimit under fair scheduling: every executor invocation   *)
(* settles, every setTimeout of sleep fires, and every promise reaction    *)
(* (the continuation after Promise.all) runs.  The inputs are the short    *)
(* item lists and one fallback batch large enough to shrink six times.     *)
(***************************************************************************)
\* No list, one item, and two items that share a batch or not.
FairItemLists == {<<>>, <<1300>>, <<600, 600>>, <<600, 1300>>, <<1300, 1300>>}

RlInitFair ==
    /\ config \in Configs
    /\ \/ /\ tokenizer \in BOOLEAN
          /\ extractor \in BOOLEAN
          /\ items \in FairItemLists
       \/ /\ tokenizer = FALSE
          /\ extractor = TRUE
          /\ items = [i \in 1..ShrinkItems |-> 600]
    /\ call = "idle"
    /\ task = <<>>
    /\ results = <<>>
    /\ writes = <<>>

InitFair == RlInitFair /\ ChIdle /\ SvIdle /\ XIdle

\* A step of some batch job: its executor invocation settles or its sleep ends.
JobStep ==
    \/ \E t \in DOMAIN task : ExecutorSucceeds(t)
    \/ \E t \in DOMAIN task, status \in FailureStatuses : ExecutorFails(t, status)
    \/ \E t \in DOMAIN task : BackoffElapsed(t)
    \/ \E t \in DOMAIN task : PauseElapsed(t)

SpecFair ==
    /\ InitFair
    /\ [][Next]_vars
    /\ WF_vars(JobStep)
    /\ WF_vars(CallRejects \/ CallReturns)

(***************************************************************************)
(* executeWithRateLimit with an executor that resolves with an array of    *)
(* any length: shorter than attemptBatch, one output per item, or longer.  *)
(***************************************************************************)
ExecutorArray(start, n) == [i \in 1..n |-> Out(start + i)]

\* Lines 91-95 for batchResults of length n.
ExecutorReturns(t, n) ==
    /\ task[t].pc = "calling"
    /\ LET outs == ExecutorArray(task[t].start, n)
       IN /\ results' = ScatterWrite(results, task[t].start, outs)
          /\ writes' = ScatterCount(writes, task[t].start, outs)
          /\ task' = TryToStartAnother(
                 [task EXCEPT ![t].pc = "done", ![t].wrote = Len(outs)], config)
    /\ UNCHANGED <<config, tokenizer, items, extractor, call, chVars, svVars, xVars>>

NextScatter ==
    \/ ExecuteWithRateLimit
    \/ \E t \in DOMAIN task :
           \E n \in 0..(task[t].size + MaxExtraOutputs) : ExecutorReturns(t, n)
    \/ \E t \in DOMAIN task, status \in FailureStatuses : ExecutorFails(t, status)
    \/ \E t \in DOMAIN task : BackoffElapsed(t)
    \/ \E t \in DOMAIN task : PauseElapsed(t)
    \/ CallRejects
    \/ CallReturns

SpecScatter == InitFair /\ [][NextScatter]_vars

(***************************************************************************)
(* TextChunker.chunkText as a machine.                                     *)
(***************************************************************************)
RlIdle ==
    /\ config = [concurrency |-> 4, maxRetries |-> 6, tpm |-> DefaultTpm]
    /\ tokenizer = FALSE
    /\ items = <<>>
    /\ extractor = FALSE
    /\ call = "idle"
    /\ task = <<>>
    /\ results = <<>>
    /\ writes = <<>>

\* Texts over the alphabet, and texts with commas: ", " is the one separator
\* of the default list that has a visible character and is not preserved.
CommaAlphabet == {"a", ",", " "}
Texts ==
    UNION {[1..n -> Alphabet] \cup [1..n -> CommaAlphabet] : n \in 0..MaxTextLen}

ChInit ==
    /\ ctext \in Texts
    /\ cmaxTokens \in 1..MaxTokens
    /\ coverlap \in 0..MaxOverlap
    /\ cseps \in SeparatorLists
    /\ cpc = "start"
    /\ stack = <<>>
    /\ cresult = <<>>

InitChunk == RlIdle /\ ChInit /\ SvIdle /\ XIdle

\* chunkText, lines 47-63.
ChunkText ==
    /\ cpc = "start"
    /\ IF Len(ctext) = 0 \/ Len(Trim(ctext)) = 0
       THEN cpc' = "done" /\ cresult' = <<>> /\ stack' = stack
       ELSE IF EstimateTokens(ctext) <= cmaxTokens
            THEN cpc' = "done" /\ cresult' = <<Trim(ctext)>> /\ stack' = stack
            ELSE cpc' = "run" /\ cresult' = cresult
                 /\ stack' = <<NewFrame(ctext, cseps)>>
    /\ UNCHANGED <<ctext, cmaxTokens, coverlap, cseps, rlVars, svVars, xVars>>

\* recursiveSplit, lines 95-97: the split fits.
SplitFits ==
    /\ cpc = "run" /\ ~Top.forcing /\ Top.i <= Len(Top.splits)
    /\ Len(CurrentSplit) <= MaxChars
    /\ stack' = SetTop([Top EXCEPT !.finalChunks = Append(@, CurrentSplit), !.i = @ + 1])
    /\ UNCHANGED <<ctext, cmaxTokens, coverlap, cseps, cpc, cresult, rlVars, svVars, xVars>>

\* recursiveSplit, lines 103-105: the split is too large and separators remain.
SplitRecurses ==
    /\ cpc = "run" /\ ~Top.forcing /\ Top.i <= Len(Top.splits)
    /\ Len(CurrentSplit) > MaxChars
    /\ Top.newSeparators # <<>>
    /\ stack' = Append(stack, NewFrame(CurrentSplit, Top.newSeparators))
    /\ UNCHANGED <<ctext, cmaxTokens, coverlap, cseps, cpc, cresult, rlVars, svVars, xVars>>

\* recursiveSplit, lines 100-102: no separator is left; enter
\* forceSplitByCharacterLimit (lines 163-164).
ForceSplitStarts ==
    /\ cpc = "run" /\ ~Top.forcing /\ Top.i <= Len(Top.splits)
    /\ Len(CurrentSplit) > MaxChars
    /\ Top.newSeparators = <<>>
    /\ stack' = SetTop([Top EXCEPT !.forcing = TRUE, !.position = 0, !.chunks = <<>>])
    /\ UNCHANGED <<ctext, cmaxTokens, coverlap, cseps, cpc, cresult, rlVars, svVars, xVars>>

\* forceSplitByCharacterLimit, lines 166-183: an iteration that is not the last.
ForceSplitStep ==
    /\ cpc = "run" /\ Top.forcing
    /\ Top.position < Len(CurrentSplit)
    /\ Len(Top.chunks) < MaxForceChunks
    /\ LET endPosition == Top.position + MaxChars
       IN /\ endPosition < Len(CurrentSplit)
          /\ stack' = SetTop([Top EXCEPT
                 !.chunks = Append(@, Trim(Substring(CurrentSplit, Top.position, endPosition))),
                 !.position = NextPosition(endPosition, coverlap)])
    /\ UNCHANGED <<ctext, cmaxTokens, coverlap, cseps, cpc, cresult, rlVars, svVars, xVars>>

\* forceSplitByCharacterLimit, lines 169-176 and 185: the last chunk, and the
\* return into recursiveSplit's finalChunks.push(...).
ForceSplitEnds ==
    /\ cpc = "run" /\ Top.forcing
    /\ Top.position < Len(CurrentSplit)
    /\ Top.position + MaxChars >= Len(CurrentSplit)
    /\ LET lastChunk == Trim(Substring(CurrentSplit, Top.position, Len(CurrentSplit)))
           chunks == IF lastChunk # <<>> THEN Append(Top.chunks, lastChunk) ELSE Top.chunks
       IN stack' = SetTop([Top EXCEPT !.finalChunks = @ \o NonEmptyOnly(chunks),
                                      !.i = @ + 1, !.forcing = FALSE,
                                      !.position = 0, !.chunks = <<>>])
    /\ UNCHANGED <<ctext, cmaxTokens, coverlap, cseps, cpc, cresult, rlVars, svVars, xVars>>

\* recursiveSplit, line 111: every split is processed; merge, add overlaps
\* and return to the caller.
SplitReturns ==
    /\ cpc = "run" /\ ~Top.forcing /\ Top.i > Len(Top.splits)
    /\ LET merged == MergeChunksWithOverlap(Top.finalChunks, MaxChars, coverlap)
           rest == SubSeq(stack, 1, Len(stack) - 1)
       IN IF rest = <<>>
          THEN cpc' = "done" /\ cresult' = merged /\ stack' = <<>>
          ELSE LET caller == rest[Len(rest)]
               IN /\ stack' = [rest EXCEPT ![Len(rest)] =
                         [caller EXCEPT !.finalChunks = @ \o merged, !.i = @ + 1]]
                  /\ cpc' = cpc /\ cresult' = cresult
    /\ UNCHANGED <<ctext, cmaxTokens, coverlap, cseps, rlVars, svVars, xVars>>

NextChunk ==
    \/ ChunkText
    \/ SplitFits
    \/ SplitRecurses
    \/ ForceSplitStarts
    \/ ForceSplitStep
    \/ ForceSplitEnds
    \/ SplitReturns

SpecChunk == InitChunk /\ [][NextChunk]_vars

(***************************************************************************)
(* OptimizedVectorSearchService as a machine: one action per call.         *)
(***************************************************************************)
\* The embeddings a stored chunk can carry: three of the query's length and
\* one of another length.  A chunk can also carry none.
ChunkEmbeddings == { <<1, 0>>, <<1, 1>>, <<0, 1>>, <<1>> }
ChunkKinds ==
    {[valid |-> TRUE, embedding |-> e] : e \in ChunkEmbeddings}
    \cup {[valid |-> FALSE, embedding |-> <<>>]}

\* The knowledgeIds of the sets, in the order of the sets: a number and a
\* string.
SetIds == <<NumberId(1), StringId(2)>>
SetIdOf(s) == SetIds[s]

RECURSIVE SumTo(_, _)
SumTo(lens, s) == IF s = 0 THEN 0 ELSE lens[s] + SumTo(lens, s - 1)

\* How many chunks each set has: MaxChunks chunks in all.
SetShapes ==
    {lens \in UNION {[1..n -> 0..MaxChunks] : n \in 0..Len(SetIds)} :
        SumTo(lens, Len(lens)) <= MaxChunks}

VectorsOf(lens, kinds) ==
    [s \in 1..Len(lens) |->
        [knowledgeId |-> SetIdOf(s),
         chunks |-> [c \in 1..lens[s] |->
                        Chunk(<<"x">>, kinds[SumTo(lens, s - 1) + c].valid,
                              kinds[SumTo(lens, s - 1) + c].embedding,
                              SetIdOf(s), c - 1)]]]

KnowledgeVectorInputs ==
    UNION { {VectorsOf(lens, kinds) : kinds \in [1..SumTo(lens, Len(lens)) -> ChunkKinds]} :
            lens \in SetShapes }

Thresholds == {Absent, Supplied(0), Supplied(800)}
MaxResultsChoices == {Absent, Supplied(0), Supplied(MaxResults)}
AllowLists ==
    { <<>>, [s \in 1..Len(SetIds) |-> JsString(SetIds[s])] }
    \cup { <<JsString(SetIds[s])>> : s \in 1..Len(SetIds) }
Filters == {Absent} \cup {Supplied(allowList) : allowList \in AllowLists}

\* Query texts are numbered in the order the caller first uses them: a call
\* asks a text that is new to the cache, or the oldest or the newest cached.
FreshQuery(cache) == IF cache = <<>> THEN 1 ELSE cache[Len(cache)] + 1
QueryChoices(cache, texts) ==
    ({FreshQuery(cache)} \cup (IF cache = <<>> THEN {} ELSE {cache[1], cache[Len(cache)]}))
    \cap (1..texts)
BatchChoices(cache, texts) ==
    {queries \in {[i \in 1..n |-> first + i - 1] :
                     first \in QueryChoices(cache, texts), n \in 1..MaxBatch} :
        queries[Len(queries)] <= texts}

\* The caller's data: many knowledge vectors and one query text, or no
\* vectors and enough query texts to fill the cache.
SvInitSearch ==
    /\ \/ knowledgeVectors \in KnowledgeVectorInputs /\ queryTexts = 1
       \/ knowledgeVectors = <<>> /\ queryTexts = MaxQueries
    /\ queryEmbeddingCache = <<>>
    /\ lastCall = NoCall
    /\ ragInitialized = FALSE
    /\ embInitialized = TRUE
    /\ files = NoFiles

InitSearch == RlIdle /\ ChIdle /\ SvInitSearch /\ XIdle

\* searchSimilar, lines 26-94.
SearchSimilar ==
    /\ CallerIdle
    /\ \E query \in QueryChoices(queryEmbeddingCache, queryTexts),
       maxResults \in MaxResultsChoices, threshold \in Thresholds, embedOk \in BOOLEAN :
        /\ CacheHas(queryEmbeddingCache, query) => embedOk
        /\ LET r == SearchSimilarOf(queryEmbeddingCache, knowledgeVectors, query,
                                    maxResults, threshold, embedOk /\ embInitialized)
           IN /\ queryEmbeddingCache' = r.cache
              /\ lastCall' = [NoCall EXCEPT !.service = "search", !.op = "searchSimilar",
                                 !.initialized = TRUE, !.query = query,
                                 !.maxResults = maxResults, !.threshold = threshold,
                                 !.embedded = r.embedded, !.raised = r.raised,
                                 !.results = r.results,
                                 !.totalCandidates = r.totalCandidates]
        /\ UNCHANGED <<knowledgeVectors, queryTexts, ragInitialized, embInitialized,
                       files, rlVars, chVars, xVars>>

\* searchSimilarCompat, lines 254-310: the catch turns a rejection of
\* searchSimilar into an empty response.
SearchSimilarCompat ==
    /\ CallerIdle
    /\ \E query \in QueryChoices(queryEmbeddingCache, queryTexts),
       maxResults \in MaxResultsChoices, threshold \in Thresholds,
       filter \in Filters, embedOk \in BOOLEAN :
        /\ CacheHas(queryEmbeddingCache, query) => embedOk
        /\ LET r == SearchSimilarOf(queryEmbeddingCache,
                                    FilterVectors(knowledgeVectors, filter), query,
                                    Supplied(OrDefault(maxResults, CompatDefaultMaxResults)),
                                    Supplied(OrDefault(threshold, DefaultThreshold)),
                                    embedOk /\ embInitialized)
               caught == IF r.raised THEN <<>> ELSE r.results
           IN /\ queryEmbeddingCache' = r.cache
              /\ lastCall' = [NoCall EXCEPT !.service = "search",
                                 !.op = "searchSimilarCompat",
                                 !.initialized = TRUE, !.query = query,
                                 !.maxResults = maxResults, !.threshold = threshold,
                                 !.filter = filter,
                                 !.embedded = r.embedded, !.raised = FALSE,
                                 !.results = caught,
                                 !.totalCandidates = Len(caught)]
        /\ UNCHANGED <<knowledgeVectors, queryTexts, ragInitialized, embInitialized,
                       files, rlVars, chVars, xVars>>

\* batchSearch, lines 122-160.
BatchSearch ==
    /\ CallerIdle
    /\ \E queries \in BatchChoices(queryEmbeddingCache, queryTexts),
       maxResults \in MaxResultsChoices, threshold \in Thresholds, embedOk \in BOOLEAN :
        /\ IF ~(embedOk /\ embInitialized)
           THEN /\ queryEmbeddingCache' = queryEmbeddingCache
                /\ lastCall' = [NoCall EXCEPT !.service = "search", !.op = "batchSearch",
                                   !.initialized = TRUE, !.queries = queries,
                                   !.maxResults = maxResults, !.threshold = threshold,
                                   !.raised = TRUE]
           ELSE LET r == BatchSearchFrom(queryEmbeddingCache, knowledgeVectors, queries, 1,
                                         OrDefault(maxResults, DefaultMaxResults),
                                         OrDefault(threshold, DefaultThreshold), <<>>)
                IN /\ queryEmbeddingCache' = r.cache
                   /\ lastCall' = [NoCall EXCEPT !.service = "search", !.op = "batchSearch",
                                      !.initialized = TRUE, !.queries = queries,
                                      !.maxResults = maxResults, !.threshold = threshold,
                                      !.embedded = TRUE, !.raised = r.raised,
                                      !.responses = r.responses]
        /\ UNCHANGED <<knowledgeVectors, queryTexts, ragInitialized, embInitialized,
                       files, rlVars, chVars, xVars>>

\* clearCache, lines 237-239.
ClearCache ==
    /\ CallerIdle
    /\ queryEmbeddingCache' = <<>>
    /\ lastCall' = [NoCall EXCEPT !.service = "search", !.op = "clearCache",
                       !.initialized = TRUE]
    /\ UNCHANGED <<knowledgeVectors, queryTexts, ragInitialized, embInitialized,
                   files, rlVars, chVars, xVars>>

\* The awaiting caller reads the outcome of the call and goes on.
CallerResumes ==
    /\ ~CallerIdle
    /\ lastCall' = NoCall
    /\ UNCHANGED <<knowledgeVectors, queryTexts, queryEmbeddingCache, ragInitialized,
                   embInitialized, files, rlVars, chVars, xVars>>

NextSearch ==
    \/ SearchSimilar
    \/ SearchSimilarCompat
    \/ BatchSearch
    \/ ClearCache
    \/ CallerResumes

SpecSearch == InitSearch /\ [][NextSearch]_vars

(***************************************************************************)
(* LangChainRAGService and LangChainEmbeddingService as a machine.         *)
(***************************************************************************)
RagDefaultMaxResults == 5
RagDefaultThreshold == 100

RagIds == {NumberId(n) : n \in 1..MaxKnowledge}
\* Contents to index: nothing, one chunk, two chunks.
Contents == { <<>>, <<"a">>, <<"b", ",", " ", "a", "a">> }
\* chunkText of each content, as the initialized embedding service gives it.
ContentChunks == [content \in Contents |-> EmbeddingChunkText(content)]
\* filter.knowledgeIds of a search: ids in any order, none twice.
IdLists ==
    {ids \in UNION {[1..n -> RagIds] : n \in 0..MaxKnowledge} :
        \A i, j \in 1..Len(ids) : i # j => ids[i] # ids[j]}

SvInitRag ==
    /\ knowledgeVectors = <<>>
    /\ queryTexts = 1
    /\ queryEmbeddingCache = <<>>
    /\ lastCall = NoCall
    /\ ragInitialized = FALSE
    /\ embInitialized = FALSE
    /\ files = NoFiles

InitRag == RlIdle /\ ChIdle /\ SvInitRag /\ XIdle

\* LangChainRAGService.initialize, lines 56-82.
RagInitialize ==
    /\ CallerIdle
    /\ ragInitialized' = TRUE
    /\ lastCall' = [NoCall EXCEPT !.service = "rag", !.op = "initialize",
                       !.initialized = ragInitialized]
    /\ UNCHANGED <<knowledgeVectors, queryTexts, queryEmbeddingCache, embInitialized,
                   files, rlVars, chVars, xVars>>

\* LangChainEmbeddingService.initialize, lines 404-416.
EmbInitialize ==
    /\ CallerIdle
    /\ embInitialized' = TRUE
    /\ lastCall' = [NoCall EXCEPT !.service = "embedding", !.op = "initialize",
                       !.initialized = embInitialized]
    /\ UNCHANGED <<knowledgeVectors, queryTexts, queryEmbeddingCache, ragInitialized,
                   files, rlVars, chVars, xVars>>

\* LangChainEmbeddingService.chunkText, lines 509-518: ensureInitialized
\* throws on a service that is not initialized.
EmbChunkText ==
    /\ CallerIdle
    /\ \E content \in Contents :
        /\ lastCall' = [NoCall EXCEPT !.service = "embedding", !.op = "chunkText",
                           !.initialized = embInitialized, !.content = content,
                           !.raised = ~embInitialized,
                           !.chunks = IF embInitialized THEN ContentChunks[content]
                                      ELSE <<>>]
        /\ UNCHANGED <<knowledgeVectors, queryTexts, queryEmbeddingCache, ragInitialized,
                       embInitialized, files, rlVars, chVars, xVars>>

\* LangChainEmbeddingService.embedText, lines 488-504.
EmbEmbedText ==
    /\ CallerIdle
    /\ \E query \in 1..queryTexts, embedOk \in BOOLEAN :
        /\ lastCall' = [NoCall EXCEPT !.service = "embedding", !.op = "embedText",
                           !.initialized = embInitialized, !.query = query,
                           !.embedded = embInitialized /\ embedOk,
                           !.raised = ~(embInitialized /\ embedOk)]
        /\ UNCHANGED <<knowledgeVectors, queryTexts, queryEmbeddingCache, ragInitialized,
                       embInitialized, files, rlVars, chVars, xVars>>

\* indexKnowledge, lines 87-137.  ensureInitialized (lines 387-392)
\* initializes the service when it is not; chunkText and embedTexts throw
\* into the catch, which returns success: false.
IndexKnowledge ==
    /\ CallerIdle
    /\ \E knowledgeId \in RagIds, content \in Contents, embedOk \in BOOLEAN :
        LET success == embInitialized /\ embedOk
            chunksWithEmbeddings ==
                ChunksWithEmbeddings(knowledgeId, ContentChunks[content])
        IN /\ ragInitialized' = TRUE
           /\ files' = IF success
                       THEN SaveKnowledgeVector(files, knowledgeId, chunksWithEmbeddings)
                       ELSE files
           /\ lastCall' = [NoCall EXCEPT !.service = "rag", !.op = "indexKnowledge",
                              !.initialized = ragInitialized,
                              !.knowledgeIds = <<knowledgeId>>, !.content = content,
                              !.embedded = success, !.success = success,
                              !.chunkIds = IF success
                                           THEN [i \in 1..Len(chunksWithEmbeddings) |->
                                                    ChunkId(chunksWithEmbeddings[i])]
                                           ELSE <<>>]
           /\ UNCHANGED <<knowledgeVectors, queryTexts, queryEmbeddingCache,
                          embInitialized, rlVars, chVars, xVars>>

\* removeKnowledge, lines 221-242.
RemoveKnowledge ==
    /\ CallerIdle
    /\ \E knowledgeId \in RagIds :
        /\ ragInitialized' = TRUE
        /\ files' = [files EXCEPT ![KnowledgeVectorPath(knowledgeId)] = NoFile]
        /\ lastCall' = [NoCall EXCEPT !.service = "rag", !.op = "removeKnowledge",
                           !.initialized = ragInitialized,
                           !.knowledgeIds = <<knowledgeId>>, !.success = TRUE]
        /\ UNCHANGED <<knowledgeVectors, queryTexts, queryEmbeddingCache,
                       embInitialized, rlVars, chVars, xVars>>

\* searchKnowledge, lines 142-216: a result's knowledgeId is the one in the
\* chunk's metadata.
SearchKnowledge ==
    /\ CallerIdle
    /\ \E query \in QueryChoices(queryEmbeddingCache, queryTexts), knowledgeIds \in IdLists,
       maxResults \in MaxResultsChoices, threshold \in Thresholds, embedOk \in BOOLEAN :
        LET vectors == LoadedVectors(files, knowledgeIds)
            r == SearchSimilarOf(queryEmbeddingCache, vectors, query,
                                 Supplied(OrIfFalsy(maxResults, RagDefaultMaxResults)),
                                 Supplied(OrIfFalsy(threshold, RagDefaultThreshold)),
                                 embedOk /\ embInitialized)
            request == [NoCall EXCEPT !.service = "rag", !.op = "searchKnowledge",
                        !.initialized = ragInitialized, !.query = query,
                        !.knowledgeIds = knowledgeIds,
                        !.maxResults = maxResults, !.threshold = threshold]
        IN /\ CacheHas(queryEmbeddingCache, query) => embedOk
           /\ ragInitialized' = TRUE
           /\ IF Len(knowledgeIds) = 0 \/ Len(vectors) = 0
              THEN /\ queryEmbeddingCache' = queryEmbeddingCache
                   /\ lastCall' = [request EXCEPT !.success = TRUE]
              ELSE /\ queryEmbeddingCache' = r.cache
                   /\ lastCall' = [request EXCEPT
                          !.embedded = r.embedded, !.success = ~r.raised,
                          !.results = IF r.raised THEN <<>>
                                      ELSE [i \in 1..Len(r.results) |->
                                               [r.results[i] EXCEPT
                                                   !.knowledgeId =
                                                       r.results[i].metadataKnowledgeId]]]
           /\ UNCHANGED <<knowledgeVectors, queryTexts, embInitialized, files,
                          rlVars, chVars, xVars>>

\* getQueryEmbedding, lines 315-318.
RagGetQueryEmbedding ==
    /\ CallerIdle
    /\ \E query \in 1..queryTexts, embedOk \in BOOLEAN :
        /\ ragInitialized' = TRUE
        /\ lastCall' = [NoCall EXCEPT !.service = "rag", !.op = "getQueryEmbedding",
                           !.initialized = ragInitialized, !.query = query,
                           !.embedded = embInitialized /\ embedOk,
                           !.raised = ~(embInitialized /\ embedOk)]
        /\ UNCHANGED <<knowledgeVectors, queryTexts, queryEmbeddingCache,
                       embInitialized, files, rlVars, chVars, xVars>>

\* clearAll, lines 293-310: it does not call ensureInitialized.
RagClearAll ==
    /\ CallerIdle
    /\ files' = NoFiles
    /\ lastCall' = [NoCall EXCEPT !.service = "rag", !.op = "clearAll",
                       !.initialized = ragInitialized, !.success = TRUE]
    /\ UNCHANGED <<knowledgeVectors, queryTexts, queryEmbeddingCache, ragInitialized,
                   embInitialized, rlVars, chVars, xVars>>

NextRag ==
    \/ RagInitialize
    \/ EmbInitialize
    \/ EmbChunkText
    \/ EmbEmbedText
    \/ IndexKnowledge
    \/ RemoveKnowledge
    \/ SearchKnowledge
    \/ RagGetQueryEmbedding
    \/ RagClearAll
    \/ CallerResumes

SpecRag == InitRag /\ [][NextRag]_vars

(***************************************************************************)
(* Claims about executeWithRateLimit, checked under Spec.                  *)
(***************************************************************************)
CallSettled == call \in {"returned", "rejected"}
SlotsOf(t) == (task[t].start + 1)..(task[t].start + task[t].len)
SlotFilled(i) == i \in DOMAIN results /\ results[i] = Out(i) /\ writes[i] = 1

\* C1: whenever executeWithRateLimit returns a results array, every index of
\* items has been written exactly once with the executor's output for that
\* item, whatever the executor's outcomes were (shrunk batches included).
C1_EverySlotWrittenOnce ==
    call = "returned" =>
        /\ Len(results) = Len(items)
        /\ \A i \in 1..Len(items) : SlotFilled(i)

\* C2: when no executor invocation fails, the returned array has the length
\* of items and holds at every index the output for that item, for both
\* partitions and every completion order of the batches.
C2_AllResultsWhenNoFailure ==
    (call = "returned" /\ \A t \in DOMAIN task : task[t].fails = 0) =>
        /\ Len(results) = Len(items)
        /\ \A i \in 1..Len(items) : SlotFilled(i)

C2_Witness ==
    /\ call = "returned"
    /\ Len(task) >= 2
    /\ \A t \in DOMAIN task : task[t].fails = 0 /\ task[t].wrote = task[t].len

\* C3: a batch whose invocations keep failing with 429 or 5xx ends as a
\* failure: its job never resolves without having written results, and the
\* call does not return as if the batch had been processed.
C3_ExhaustedBatchFails ==
    /\ \A t \in DOMAIN task : task[t].pc = "done" => task[t].wrote > 0
    /\ call = "returned" => \A t \in DOMAIN task : task[t].wrote > 0

C5_ConcurrencyBound ==
    Cardinality(InProgress(task)) <= config.concurrency

C5_Witness ==
    /\ Cardinality(InProgress(task)) = config.concurrency
    /\ Queued(task) # {}
    /\ \E t \in DOMAIN task : task[t].pc \in {"backoff", "pause"}

\* C6: executeWithRateLimit neither returns nor rejects while a batch it
\* submitted is still queued, executing or sleeping.
C6_SettlesOnlyAfterAllBatches ==
    CallSettled => \A t \in DOMAIN task : task[t].pc \in {"done", "failed"}

\* C7: in callWithRetry a failure with status 429 or 500..599 is retried after
\* a backoff sleep while attempt < maxRetries, so one callWithRetry makes at
\* most maxRetries + 1 invocations; a failure with any other status or with
\* none is rethrown at once: the job fails with no sleep, retry or shrink.
C7_StepOf(t) ==
    (task[t].pc = "calling" /\ task'[t].fails = task[t].fails + 1) =>
        LET st == task'[t].err
            retryable == st = 429 \/ (st >= 500 /\ st <= 599)
        IN /\ (retryable /\ task[t].retry < config.maxRetries) =>
                  /\ task'[t].pc = "backoff"
                  /\ task'[t].size = task[t].size
           /\ (retryable /\ task[t].retry >= config.maxRetries) =>
                  task'[t].pc # "backoff"
           /\ ~retryable =>
                  /\ task'[t].pc = "failed"
                  /\ task'[t].size = task[t].size
                  /\ task'[t].calls = task[t].calls

C7_RetryPolicy ==
    /\ [](\A t \in DOMAIN task : task[t].cwrCalls <= config.maxRetries + 1)
    /\ [][\A t \in DOMAIN task : C7_StepOf(t)]_vars

C7_Witness ==
    \E t \in DOMAIN task :
        /\ task[t].pc = "failed"
        /\ task[t].err \in {400, NoStatus}
        /\ task[t].fails >= 2
        /\ task[t].size = task[t].len

\* C8 (as claimed): an executor that fails with 429 on its first K invocations
\* for a batch and then succeeds is invoked K + 1 times and the batch's job
\* ends with the right output in every slot of the batch, for every K.
C8_Conclusion(t) ==
    /\ task[t].pc = "done"
    /\ task[t].calls = task[t].fails + 1
    /\ \A i \in SlotsOf(t) : SlotFilled(i)

C8_RetriedExactlyK ==
    \A t \in DOMAIN task :
        (task[t].pc \in {"done", "failed"} /\ task[t].only429) => C8_Conclusion(t)

\* C8 (amended): the same for every K with 0 <= K <= maxRetries.
C8_RetriedExactlyKWithinCeiling ==
    \A t \in DOMAIN task :
        (/\ task[t].pc \in {"done", "failed"}
         /\ task[t].only429
         /\ task[t].fails <= config.maxRetries) => C8_Conclusion(t)

C8_Witness ==
    \E t \in DOMAIN task :
        /\ task[t].pc = "done"
        /\ task[t].only429
        /\ task[t].fails = config.maxRetries
        /\ task[t].fails >= 1
        /\ task[t].len >= 2
        /\ call = "returned"

(***************************************************************************)
(* Claims about TextChunker.chunkText, checked under SpecChunk.            *)
(***************************************************************************)
\* A separator can split the chunk: it occurs in it, or it is the empty
\* string and the chunk has more than one character.
CanSplit(chunk, separator) ==
    IF separator = <<>> THEN Len(chunk) > 1 ELSE Includes(chunk, separator)

AtomicUnit(chunk, separators) ==
    \A j \in 1..Len(separators) : ~CanSplit(chunk, separators[j])

\* C9: every chunk chunkText returns has estimateTokens(chunk) <= maxTokens,
\* unless it is a single atomic unit no separator of the list can split; the
\* bound holds after overlap text has been prepended.
C9_ChunksWithinTokenLimit ==
    cpc = "done" =>
        \A k \in 1..Len(cresult) :
            \/ EstimateTokens(cresult[k]) <= cmaxTokens
            \/ AtomicUnit(cresult[k], cseps)

\* C10: chunkText terminates for every text, maxTokens, overlap and separator
\* list; in forceSplitByCharacterLimit the scan position strictly increases on
\* every iteration of the loop.
C10_ForceSplitProgress ==
    [][(/\ cpc = "run" /\ cpc' = "run"
        /\ Len(stack') = Len(stack)
        /\ stack[Len(stack)].forcing /\ stack'[Len(stack')].forcing)
       => stack'[Len(stack')].position > stack[Len(stack)].position]_vars

\* Some non-empty prefix of chunk is a suffix of previous.
BeginsWithTailOf(chunk, previous) ==
    \E k \in 1..Min(Len(chunk), Len(previous)) :
        SubSeq(chunk, 1, k) = SubSeq(previous, Len(previous) - k + 1, Len(previous))

NonWhitespace(text) == SelectSeq(text, LAMBDA c : c \notin Whitespace)

\* chunks.join('')
RECURSIVE JoinChunks(_)
JoinChunks(chunks) ==
    IF chunks = <<>> THEN <<>> ELSE Head(chunks) \o JoinChunks(Tail(chunks))

\* C12: when chunkText splits a text into several chunks, the chunks without
\* their injected overlap prefix (the merged chunks addOverlapsBetweenChunks
\* was given), joined in order, have exactly the non-whitespace characters of
\* the text, in the same order.
C12_JoinKeepsNonWhitespace ==
    [][(cpc = "run" /\ cpc' = "done" /\ Len(cresult') >= 2)
       => NonWhitespace(JoinChunks(MergeFrom(stack[1].finalChunks, 1, <<>>, <<>>, MaxChars)))
          = NonWhitespace(ctext)]_vars

(***************************************************************************)
(* Claims about the search services.                                       *)
(***************************************************************************)
\* The positions of the entries a search at this threshold keeps.
EligibleEntries(entries, queryEmbedding, threshold) ==
    {i \in 1..Len(entries) :
        /\ entries[i].chunk.valid
        /\ ~LengthsDiffer(queryEmbedding, entries[i].chunk.embedding)
        /\ ScoreGeq(CosineSimilarity(queryEmbedding, entries[i].chunk.embedding),
                    ThresholdScore(threshold))}

ScoreOfEntry(entries, queryEmbedding, i) ==
    CosineSimilarity(queryEmbedding, entries[i].chunk.embedding)

\* Entry i is listed before entry j: its score is higher, or the scores are
\* equal and it is met first.
ListedBefore(entries, queryEmbedding, i, j) ==
    LET si == ScoreOfEntry(entries, queryEmbedding, i)
        sj == ScoreOfEntry(entries, queryEmbedding, j)
    IN \/ ScoreGeq(si, sj) /\ ~ScoreGeq(sj, si)
       \/ ScoreGeq(si, sj) /\ ScoreGeq(sj, si) /\ i < j

\* The place of eligible entry j in the stably sorted list.
PlaceOf(entries, queryEmbedding, eligible, j) ==
    Cardinality({i \in eligible : ListedBefore(entries, queryEmbedding, i, j)}) + 1

\* results is the first maxResults elements of the eligible entries of
\* vectors, sorted by score descending, ties in encounter order.
IsRankedTopOf(found, vectors, query, maxResults, threshold) ==
    LET entries == AllChunks(vectors)
        queryEmbedding == QueryEmbedding(query)
        eligible == EligibleEntries(entries, queryEmbedding, threshold)
        count == Min(maxResults, Cardinality(eligible))
    IN /\ Len(found) = count
       /\ \A j \in eligible :
              PlaceOf(entries, queryEmbedding, eligible, j) <= count =>
                  LET result == found[PlaceOf(entries, queryEmbedding, eligible, j)]
                  IN /\ result.score = ScoreOfEntry(entries, queryEmbedding, j)
                     /\ result.content = entries[j].chunk.content
                     /\ result.knowledgeId = entries[j].knowledgeId
                     /\ result.chunkIndex = entries[j].chunk.chunkIndex
       /\ \A r \in 1..Len(found) : ScoreGeq(found[r].score, ThresholdScore(threshold))
       /\ \A r \in 2..Len(found) : ScoreGeq(found[r - 1].score, found[r].score)

\* C13: a searchSimilar that returns gives exactly the first maxResults
\* elements of the list of the chunks with a valid embedding and a similarity
\* >= threshold, taken in encounter order and sorted by score descending
\* with a stable sort: no result is below the threshold, scores do not
\* increase, equal scores keep encounter order and there are at most
\* maxResults results.
C13_SearchSimilarRankedTop ==
    (lastCall.op = "searchSimilar" /\ ~lastCall.raised) =>
        IsRankedTopOf(lastCall.results, knowledgeVectors, lastCall.query,
                      OrDefault(lastCall.maxResults, DefaultMaxResults),
                      OrDefault(lastCall.threshold, DefaultThreshold))

\* A search that returned the first of two chunks of one score and cut the
\* second off.
C13_Witness ==
    /\ lastCall.op = "searchSimilar" /\ ~lastCall.raised
    /\ LET entries == AllChunks(knowledgeVectors)
           queryEmbedding == QueryEmbedding(lastCall.query)
           eligible == EligibleEntries(entries, queryEmbedding,
                                       OrDefault(lastCall.threshold, DefaultThreshold))
       IN /\ Len(lastCall.results) >= 1
          /\ Len(lastCall.results) < Cardinality(eligible)
          /\ \E i, j \in eligible :
                /\ i < j
                /\ ScoreOfEntry(entries, queryEmbedding, i)
                       = ScoreOfEntry(entries, queryEmbedding, j)
                /\ lastCall.results[Len(lastCall.results)].chunkIndex
                       = entries[i].chunk.chunkIndex
                /\ lastCall.results[Len(lastCall.results)].knowledgeId
                       = entries[i].knowledgeId
                /\ entries[i].knowledgeId # entries[j].knowledgeId

\* C14: a search keeps a candidate exactly when its similarity is >= the
\* threshold the request supplies and truncates to the maxResults the request
\* supplies, 0 included; the defaults serve only for an absent field.  Stated
\* for searchKnowledge: it returns as many results as there are chunks of the
\* loaded sets at or above the supplied threshold, up to the supplied
\* maxResults.
C14_SuppliedLimitsHonoured ==
    (lastCall.op = "searchKnowledge" /\ lastCall.success /\ lastCall.embedded) =>
        LET entries == AllChunks(LoadedVectors(files, lastCall.knowledgeIds))
            eligible == EligibleEntries(entries, QueryEmbedding(lastCall.query),
                                        OrDefault(lastCall.threshold, RagDefaultThreshold))
        IN Len(lastCall.results)
               = Min(OrDefault(lastCall.maxResults, RagDefaultMaxResults),
                     Cardinality(eligible))

\* C15: after any sequence of searchSimilar, searchSimilarCompat,
\* batchSearch and clearCache calls the query-embedding cache holds at most
\* maxCacheSize entries.
C15_CacheWithinMaxSize ==
    Len(queryEmbeddingCache) <= MaxCacheSize

\* C16: when a chunk that is scored has an embedding of another length than
\* the query embedding, the call of searchSimilar or searchSimilarCompat
\* fails with an error the caller sees; no result list is returned.
C16_MismatchFailsCall ==
    (/\ lastCall.op \in {"searchSimilar", "searchSimilarCompat"}
     /\ lastCall.embedded
     /\ ScoringThrows(FilterVectors(knowledgeVectors, lastCall.filter),
                      QueryEmbedding(lastCall.query)))
        => lastCall.raised

\* The knowledge sets whose knowledgeId, as a string, is in the allow-list.
SetsInAllowList(vectors, allowList) ==
    SelectSeq(vectors, LAMBDA v : \E i \in 1..Len(allowList) :
                                     /\ allowList[i].type = "string"
                                     /\ allowList[i].n = v.knowledgeId.n)

\* The sets a searchSimilarCompat request leaves eligible.
EligibleSets(vectors, filter) ==
    IF filter = Absent \/ filter[1] = <<>> THEN vectors
    ELSE SetsInAllowList(vectors, filter[1])

\* C18: searchSimilarCompat with a non-empty filter.knowledgeIds scores only
\* the knowledge sets whose knowledgeId, as a string, is in the allow-list:
\* every result has a knowledgeId of the allow-list and the results are
\* those of an unfiltered search on the allowed sets alone; with no filter or
\* an empty allow-list every set is eligible.
C18_CompatScoresAllowedSetsOnly ==
    lastCall.op = "searchSimilarCompat" =>
        LET eligibleSets == EligibleSets(knowledgeVectors, lastCall.filter)
        IN /\ \A r \in 1..Len(lastCall.results) :
                  \E s \in 1..Len(eligibleSets) :
                      eligibleSets[s].knowledgeId = lastCall.results[r].knowledgeId
           /\ IF /\ lastCall.embedded
                 /\ \A s \in 1..Len(eligibleSets) :
                        \A c \in 1..Len(eligibleSets[s].chunks) :
                            eligibleSets[s].chunks[c].valid =>
                                Len(eligibleSets[s].chunks[c].embedding)
                                    = Len(QueryEmbedding(lastCall.query))
              THEN IsRankedTopOf(lastCall.results, eligibleSets, lastCall.query,
                                 OrDefault(lastCall.maxResults, CompatDefaultMaxResults),
                                 OrDefault(lastCall.threshold, DefaultThreshold))
              ELSE lastCall.results = <<>>

\* A filtered search that returned the matching chunk of the allowed set,
\* whose knowledgeId is a number, and left out the matching chunk of the
\* other set.
C18_Witness ==
    /\ lastCall.op = "searchSimilarCompat"
    /\ lastCall.filter = Supplied(<<StringId(1)>>)
    /\ Len(knowledgeVectors) = 2
    /\ Len(lastCall.results) = 1
    /\ lastCall.results[1].knowledgeId = NumberId(1)
    /\ EligibleEntries(AllChunks(<<knowledgeVectors[2]>>), QueryEmbedding(lastCall.query),
                       OrDefault(lastCall.threshold, DefaultThreshold)) # {}

(***************************************************************************)
(* Claims about the RAG service.                                           *)
(***************************************************************************)
\* C17: an operation of LangChainRAGService or LangChainEmbeddingService
\* that is invoked before initialize() of its service has completed raises an
\* error to its caller and leaves the state unchanged: the initialized flags,
\* the vector files and the query-embedding cache.
C17_UninitializedCallRaises ==
    [][(/\ lastCall'.service \in {"rag", "embedding"}
        /\ lastCall'.op # "initialize"
        /\ ~lastCall'.initialized
        /\ lastCall' # lastCall)
       => (/\ lastCall'.raised
           /\ UNCHANGED <<ragInitialized, embInitialized, files, queryEmbeddingCache>>)]_vars

\* The vector file an indexKnowledge call that succeeded on this content
\* leaves: one chunk object per chunk of the content, in order.
IsChunkListOf(file, knowledgeId, content, chunkIds) ==
    /\ file.exists
    /\ Len(file.chunks) = Len(ContentChunks[content])
    /\ Len(file.chunks) = Len(chunkIds)
    /\ \A i \in 1..Len(file.chunks) :
          /\ file.chunks[i].content = ContentChunks[content][i]
          /\ file.chunks[i].knowledgeId = knowledgeId
          /\ file.chunks[i].chunkIndex = i - 1
          /\ chunkIds[i] = [knowledgeId |-> knowledgeId, chunkIndex |-> i - 1]

OtherFilesUnchanged(before, after, n) ==
    \A k \in DOMAIN before : k # n => after[k] = before[k]

\* C19: the stored vector set of a knowledge id is absent or exactly the
\* chunk list of the last successful indexKnowledge for that id not followed
\* by removeKnowledge.  Step by step: a successful indexKnowledge replaces
\* the set of its id by its chunk list, a failed one leaves every set as it
\* was, removeKnowledge deletes the set of its id, and no other call except
\* clearAll touches a set.
C19_StoredSetFollowsLastIndex ==
    [][/\ (lastCall'.op = "indexKnowledge" /\ lastCall'.success) =>
              /\ IsChunkListOf(files'[lastCall'.knowledgeIds[1].n],
                               lastCall'.knowledgeIds[1], lastCall'.content,
                               lastCall'.chunkIds)
              /\ OtherFilesUnchanged(files, files', lastCall'.knowledgeIds[1].n)
       /\ (lastCall'.op = "indexKnowledge" /\ ~lastCall'.success) => files' = files
       /\ lastCall'.op = "removeKnowledge" =>
              /\ ~files'[lastCall'.knowledgeIds[1].n].exists
              /\ files'[lastCall'.knowledgeIds[1].n].chunks = <<>>
              /\ OtherFilesUnchanged(files, files', lastCall'.knowledgeIds[1].n)
       /\ lastCall'.op \notin {"indexKnowledge", "removeKnowledge", "clearAll"} =>
              files' = files]_vars

\* An indexKnowledge that failed on an id whose set was stored before: the
\* set is still there, with other chunks than the failed content has.
C19_Witness ==
    /\ lastCall.op = "indexKnowledge" /\ ~lastCall.success
    /\ files[lastCall.knowledgeIds[1].n].exists
    /\ Len(files[lastCall.knowledgeIds[1].n].chunks) = 2
    /\ Len(ContentChunks[lastCall.content]) = 1

\* No requested id has a stored chunk: the file is missing or holds none.
NothingLoadable(store, knowledgeIds) ==
    \A k \in 1..Len(knowledgeIds) : store[knowledgeIds[k].n].chunks = <<>>

\* C20: searchKnowledge does not abort on ids that are missing or do not
\* load.  A search with no ids or with nothing loadable returns success =
\* true and an empty result list; a search over ids of which some are missing
\* returns success = true with results of the loaded ids only, in
\* non-increasing score order.
C20_MissingIdsDoNotAbort ==
    lastCall.op = "searchKnowledge" =>
        /\ NothingLoadable(files, lastCall.knowledgeIds) =>
               lastCall.success /\ lastCall.results = <<>>
        /\ (/\ lastCall.embedded
            /\ \E k \in 1..Len(lastCall.knowledgeIds) :
                   ~files[lastCall.knowledgeIds[k].n].exists) =>
               /\ lastCall.success
               /\ \A r \in 1..Len(lastCall.results) :
                      \E k \in 1..Len(lastCall.knowledgeIds) :
                          /\ lastCall.knowledgeIds[k] = lastCall.results[r].knowledgeId
                          /\ files[lastCall.knowledgeIds[k].n].exists
               /\ \A r \in 2..Len(lastCall.results) :
                      ScoreGeq(lastCall.results[r - 1].score, lastCall.results[r].score)

(***************************************************************************)
(* The shrink loop's reaction to an error that escapes callWithRetry.      *)
(***************************************************************************)
\* C22: when a 429 escapes callWithRetry for a batch of size s, a batch with
\* s > 1 is replaced by its first ceil(s/2) items and, after the pause, is
\* retried; with s = 1 the error propagates and the job fails; an error of
\* any other status never changes the batch's size.
C22_ThrottleShrinksAndRetries ==
    [][\A t \in DOMAIN task :
          t \in DOMAIN task' =>
              /\ (/\ task[t].pc = "calling"
                  /\ task'[t].pc \in {"pause", "failed"}
                  /\ task'[t].err = StatusTooManyRequests) =>
                     IF task[t].size > 1
                     THEN /\ task'[t].pc = "pause"
                          /\ task'[t].size = CeilHalf(task[t].size)
                     ELSE /\ task'[t].pc = "failed"
                          /\ task'[t].size = task[t].size
              /\ (task[t].pc = "pause" /\ task'[t].pc # "pause") =>
                     /\ task'[t].pc = "calling"
                     /\ task'[t].size = task[t].size
              /\ (task[t].pc = "calling" /\ task'[t].err # StatusTooManyRequests) =>
                     task'[t].size = task[t].size]_vars

(***************************************************************************)
(* The batch list of executeWithRateLimit.                                 *)
(***************************************************************************)
\* Token count of items[from..to] (1-based, inclusive).
RECURSIVE TokenSum(_, _, _)
TokenSum(its, from, to) ==
    IF from > to THEN 0 ELSE its[from] + TokenSum(its, from + 1, to)

\* C23: the batch list is an order-preserving partition of items: every batch
\* is non-empty, the first starts at 0, each later one starts where the
\* previous one ends, and the last ends at items.length.  With a tokenizer and
\* an extractor every batch of more than one item has a token sum of at most
\* maxTokensPerCall, and the first item of each later batch would not have
\* fitted in the batch before it; without them every batch except possibly
\* the last has exactly 128 items.
C23_BatchesPartitionItems ==
    call # "idle" =>
        /\ \A t \in DOMAIN task : task[t].len >= 1
        /\ Len(task) = 0 <=> Len(items) = 0
        /\ Len(task) > 0 =>
               /\ task[1].start = 0
               /\ task[Len(task)].start + task[Len(task)].len = Len(items)
        /\ \A t \in 2..Len(task) : task[t].start = task[t - 1].start + task[t - 1].len
        /\ IF tokenizer /\ extractor
           THEN /\ \A t \in DOMAIN task :
                       \/ task[t].len = 1
                       \/ TokenSum(items, task[t].start + 1, task[t].start + task[t].len)
                              <= MaxTokensPerCall(config)
                /\ \A t \in 2..Len(task) :
                       TokenSum(items, task[t - 1].start + 1, task[t].start + 1)
                           > MaxTokensPerCall(config)
           ELSE \A t \in 1..(Len(task) - 1) : task[t].len = FallbackBatchSize

C23_Witness ==
    /\ call # "idle"
    /\ tokenizer /\ extractor
    /\ Len(task) = 2
    /\ TokenSum(items, 1, Len(items)) > MaxTokensPerCall(config)

(***************************************************************************)
(* The overlap addOverlapsBetweenChunks prepends.                          *)
(***************************************************************************)
\* suffix, the last Len(suffix) characters of text, starts at the beginning
\* of text or right after a space.
BeginsAtWordBoundary(text, suffix) ==
    LET before == Len(text) - Len(suffix)
    IN before = 0 \/ text[before] = " "

\* C24: the overlap text addOverlapsBetweenChunks prepends to chunk i is taken
\* from the end of chunk i-1 starting at a word boundary: it never begins in
\* the middle of a word, for every previous chunk and every overlap > 0.
C24_OverlapBeginsAtWordBoundary ==
    [][(/\ cpc = "run" /\ ~Top.forcing /\ Top.i > Len(Top.splits)
        /\ Len(stack') < Len(stack)
        /\ coverlap > 0)
       => LET merged == MergeFrom(Top.finalChunks, 1, <<>>, <<>>, MaxChars)
          IN \A i \in 2..Len(merged) :
                 LET prevOverlap == ExtractOverlap(merged[i - 1], coverlap)
                 IN (prevOverlap # <<>> /\ ~StartsWith(merged[i], prevOverlap))
                        => BeginsAtWordBoundary(merged[i - 1], prevOverlap)]_vars

(***************************************************************************)
(* Termination of executeWithRateLimit.                                    *)
(***************************************************************************)
\* C28: every batch job invokes the executor at most 6 * (maxRetries + 1)
\* times; when every invocation and every sleep eventually completes, every
\* batch job eventually settles and executeWithRateLimit eventually returns
\* or rejects.
C28_BoundedInvocationsAndTermination ==
    /\ [](\A t \in DOMAIN task :
              task[t].calls <= ShrinkAttempts * (config.maxRetries + 1))
    /\ (call = "running") ~>
           (/\ call \in {"returned", "rejected"}
            /\ \A t \in DOMAIN task : task[t].pc \in {"done", "failed"})

C28_Witness ==
    /\ call \in {"returned", "rejected"}
    /\ \A t \in DOMAIN task : task[t].pc \in {"done", "failed"}
    /\ \E t \in DOMAIN task :
           task[t].calls = ShrinkAttempts * (config.maxRetries + 1)

(***************************************************************************)
(* The result indices a batch job writes.                                  *)
(***************************************************************************)
\* C25: in every interleaving a batch job (start, batch) writes only result
\* indices in [start, start + batch.length), and no index is written by two
\* jobs, whatever array the executor returns.
C25_BatchesWriteOwnIndices ==
    /\ \A t \in DOMAIN task : task[t].wrote <= task[t].len
    /\ \A j \in DOMAIN writes : writes[j] <= 1

(***************************************************************************)
(* callWithRetry with its sleeps.  Math.random() * 300 is a real in        *)
(* [0, 300); the model draws it from whole numbers of milliseconds.        *)
(***************************************************************************)
BaseBackoffChoices == {1, 100, 500, 20000, 59900}
JitterSamples == {0, 150, JitterRange - 1}

\* A backoff that grows linearly instead of doubling.
BackoffDelayLinear(baseBackoffMs, attempt) ==
    Min(BackoffCap, baseBackoffMs * (attempt + 1))

\* Math.min(60_000, baseBackoffMs * (2 ** attempt))
BackoffDelay(baseBackoffMs, attempt) == Min(BackoffCap, baseBackoffMs * (2 ^ attempt))

RtInit ==
    cwr \in [pc : {"idle"}, baseBackoffMs : BaseBackoffChoices,
             maxRetries : 0..MaxBackoffRetries, attempt : {0}, sleeps : {<<>>}]

InitBackoff == RlIdle /\ ChIdle /\ SvIdle /\ RtInit /\ WiIdle /\ LvIdle /\ PqIdle

\* callWithRetry(fn): attempt = 0, fn() is in flight.
CallWithRetry ==
    /\ cwr.pc = "idle"
    /\ cwr' = [cwr EXCEPT !.pc = "calling"]
    /\ UNCHANGED <<rlVars, chVars, svVars, wiVars, lvVars, pqVars>>

\* Line 173: return await fn().
FnResolves ==
    /\ cwr.pc = "calling"
    /\ cwr' = [cwr EXCEPT !.pc = "resolved"]
    /\ UNCHANGED <<rlVars, chVars, svVars, wiVars, lvVars, pqVars>>

\* Lines 174-186: fn() rejected with `status`; rethrow, or sleep for
\* delay + jitter.
FnRejects(status, jitter) ==
    /\ cwr.pc = "calling"
    /\ IF Rethrows(status, cwr.attempt, cwr.maxRetries)
       THEN cwr' = [cwr EXCEPT !.pc = "rejected"]
       ELSE cwr' = [cwr EXCEPT !.pc = "sleeping",
                               !.sleeps = Append(@, BackoffDelay(cwr.baseBackoffMs, cwr.attempt)
                                                    + jitter)]
    /\ UNCHANGED <<rlVars, chVars, svVars, wiVars, lvVars, pqVars>>

\* Line 188: the sleep is over; callWithRetry(fn, attempt + 1).
SleepElapsed ==
    /\ cwr.pc = "sleeping"
    /\ cwr' = [cwr EXCEPT !.pc = "calling", !.attempt = @ + 1]
    /\ UNCHANGED <<rlVars, chVars, svVars, wiVars, lvVars, pqVars>>

NextBackoff ==
    \/ CallWithRetry
    \/ FnResolves
    \/ \E status \in FailureStatuses, jitter \in JitterSamples : FnRejects(status, jitter)
    \/ SleepElapsed

SpecBackoff == InitBackoff /\ [][NextBackoff]_vars

\* baseBackoffMs doubled a times.
RECURSIVE Doubled(_, _)
Doubled(baseBackoffMs, a) ==
    IF a = 0 THEN baseBackoffMs ELSE 2 * Doubled(baseBackoffMs, a - 1)

\* The delay before retry a, without jitter.
CappedDelay(baseBackoffMs, a) ==
    IF Doubled(baseBackoffMs, a) < BackoffCap THEN Doubled(baseBackoffMs, a) ELSE BackoffCap

\* The sleep before retry a is the capped delay plus a jitter in [0, 300).
SleepsFollowFormula ==
    \A k \in 1..Len(cwr.sleeps) :
        /\ cwr.sleeps[k] >= CappedDelay(cwr.baseBackoffMs, k - 1)
        /\ cwr.sleeps[k] < CappedDelay(cwr.baseBackoffMs, k - 1) + JitterRange

\* C21 as stated: within one callWithRetry the sleep before retry a is
\* min(60000, baseBackoffMs * 2^a) plus a jitter in [0, 300) ms, and the
\* observed sleeps do not decrease from one attempt to the next while the
\* delay is below the 60000 cap, for every baseBackoffMs and jitter draw.
C21_SleepsNonDecreasing ==
    /\ SleepsFollowFormula
    /\ \A k \in 2..Len(cwr.sleeps) :
           CappedDelay(cwr.baseBackoffMs, k - 1) < BackoffCap =>
               cwr.sleeps[k] >= cwr.sleeps[k - 1]

\* C21, amended: the sleep before retry a is min(60000, baseBackoffMs * 2^a)
\* plus a jitter in [0, 300) ms; the observed sleep does not decrease from one
\* attempt to the next whenever the delay grows by at least 300 ms between
\* them, and two consecutive sleeps never differ downwards by 300 ms or more.
C21_SleepsNonDecreasingWhenDelayGrowsByJitterRange ==
    /\ SleepsFollowFormula
    /\ \A k \in 2..Len(cwr.sleeps) :
           /\ (CappedDelay(cwr.baseBackoffMs, k - 1)
                   - CappedDelay(cwr.baseBackoffMs, k - 2) >= JitterRange) =>
                  cwr.sleeps[k] >= cwr.sleeps[k - 1]
           /\ cwr.sleeps[k] > cwr.sleeps[k - 1] - JitterRange

C21_Witness ==
    /\ cwr.baseBackoffMs = 500
    /\ Len(cwr.sleeps) = 3
    /\ cwr.sleeps[1] = 500 + JitterRange - 1
    /\ cwr.sleeps[2] = 1000
    /\ cwr.sleeps[3] = 2000 + JitterRange - 1

(***************************************************************************)
(* EmbedLoader.waitForInit.  Each call starts its own setInterval; the     *)
(* callback reads isInitiated() anew at every tick, so its value is an     *)
(* input of the tick.                                                      *)
(***************************************************************************)
\* A ceiling that lets one more tick pass.
CeilingPassedLate(i) == i > TickCeiling + 1

\* if (i > 9)
CeilingPassed(i) == i > TickCeiling

NewWaiter == [pc |-> "waiting", i |-> 0, interval |-> TRUE, initiated |-> FALSE]

InitWait == RlIdle /\ ChIdle /\ SvIdle /\ RtIdle /\ WiIdle /\ LvIdle /\ PqIdle

\* Lines 213-232: new Promise, let i = 0, setInterval(..., 300).
WaitForInit ==
    /\ Len(waiters) < MaxWaiters
    /\ waiters' = Append(waiters, NewWaiter)
    /\ UNCHANGED <<rlVars, chVars, svVars, rtVars, lvVars, pqVars>>

\* resolve(_self) and reject(null): only the first settles the promise.
Settle(pc, outcome) == IF pc = "waiting" THEN outcome ELSE pc

\* Lines 219-231: one run of the interval callback of waiter w, in which
\* isInitiated() returns `initiated`.  A cleared interval does not run.
Tick(w, initiated) ==
    /\ w \in DOMAIN waiters
    /\ waiters[w].interval
    /\ LET afterFirst == IF initiated
                         THEN [waiters[w] EXCEPT !.interval = FALSE,
                                                 !.pc = Settle(@, "resolved")]
                         ELSE waiters[w]
           afterSecond == IF CeilingPassed(waiters[w].i)
                          THEN [afterFirst EXCEPT !.interval = FALSE,
                                                  !.pc = Settle(@, "rejected")]
                          ELSE afterFirst
       IN waiters' = [waiters EXCEPT ![w] =
                         [afterSecond EXCEPT !.i = @ + 1, !.initiated = initiated]]
    /\ UNCHANGED <<rlVars, chVars, svVars, rtVars, lvVars, pqVars>>

NextWait ==
    \/ WaitForInit
    \/ \E w \in DOMAIN waiters, initiated \in BOOLEAN : Tick(w, initiated)

SpecWait == InitWait /\ [][NextWait]_vars

\* setInterval fires its callback every 300 ms until it is cleared.
SpecWaitFair ==
    /\ SpecWait
    /\ \A w \in 1..MaxWaiters : WF_vars(\E initiated \in BOOLEAN : Tick(w, initiated))

\* C26: waitForInit always settles within a fixed number of 300 ms ticks: it
\* resolves at the first tick at which isInitiated() is true, rejects at the
\* tick that finds more than 9 ticks elapsed (the 11th), and once it has
\* settled the interval is cleared, so no further tick runs.
C26_WaitForInitSettles ==
    /\ [](\A w \in DOMAIN waiters :
              /\ waiters[w].i <= TickCeiling + 2
              /\ waiters[w].pc = "waiting" => waiters[w].interval /\ ~waiters[w].initiated
              /\ waiters[w].pc # "waiting" => ~waiters[w].interval
              /\ waiters[w].pc = "resolved" => waiters[w].initiated
              /\ waiters[w].pc = "rejected" =>
                     ~waiters[w].initiated /\ waiters[w].i = TickCeiling + 2)
    /\ [][\A w \in DOMAIN waiters :
              waiters'[w] # waiters[w] =>
                  /\ waiters[w].pc = "waiting"
                  /\ waiters'[w].i = waiters[w].i + 1
                  /\ waiters'[w].pc = "resolved" <=> waiters'[w].initiated
                  /\ waiters'[w].pc = "rejected" <=>
                         (~waiters'[w].initiated /\ waiters[w].i > TickCeiling)]_vars
    /\ \A w \in 1..MaxWaiters :
           (w \in DOMAIN waiters) ~> (w \in DOMAIN waiters /\ waiters[w].pc # "waiting")

C26_Witness ==
    /\ Len(waiters) = 2
    /\ waiters[1].pc = "rejected"
    /\ waiters[2].pc = "resolved" /\ waiters[2].i = TickCeiling + 2

(***************************************************************************)
(* OpenAIRateLimitingService while its queue is replaced.  A PQueue keeps  *)
(* the concurrency it was created with and goes on running the jobs added  *)
(* to it after this.queue points to a newer one.  A job is in progress     *)
(* from its start to the end of its shrink loop.                           *)
(***************************************************************************)
\* The concurrency field of a Partial<IRateLimitConfig>: absent or a value.
ConcurrencyArguments == {<<>>} \cup {<<c>> : c \in 1..MaxConcurrency}

\* { ...this.config, ...config }
MergedConcurrency(current, argument) ==
    IF argument = <<>> THEN current ELSE argument[1]

RunningIn(js, q) == {j \in DOMAIN js : js[j].queue = q /\ js[j].pc = "running"}
QueuedIn(js, q) == {j \in DOMAIN js : js[j].queue = q /\ js[j].pc = "queued"}

\* Queue q starts its queued jobs in the order they were added while fewer
\* than its own concurrency are pending.
RECURSIVE StartQueued(_, _, _)
StartQueued(js, q, concurrency) ==
    IF QueuedIn(js, q) # {} /\ CanStart(Cardinality(RunningIn(js, q)), concurrency)
    THEN LET j == CHOOSE a \in QueuedIn(js, q) : \A b \in QueuedIn(js, q) : a <= b
         IN StartQueued([js EXCEPT ![j].pc = "running"], q, concurrency)
    ELSE js

InitQueues == RlIdle /\ ChIdle /\ SvIdle /\ RtIdle /\ WiIdle /\ LvIdle /\ PqIdle

\* initialize(model, config), lines 35-54: merge the config and always
\* create a new queue.
PqInitialize(argument) ==
    /\ Len(queues) < MaxQueues
    /\ qconfig' = MergedConcurrency(qconfig, argument)
    /\ queues' = Append(queues, qconfig')
    /\ UNCHANGED <<jobs, rlVars, chVars, svVars, rtVars, wiVars, lvVars>>

\* updateConfig(newConfig), lines 209-216: merge the config; a new queue only
\* when newConfig.concurrency is given and differs from this.queue.concurrency.
PqUpdateConfig(argument) ==
    /\ Len(queues) < MaxQueues
    /\ qconfig' = MergedConcurrency(qconfig, argument)
    /\ IF argument # <<>> /\ argument[1] # queues[Len(queues)]
       THEN queues' = Append(queues, qconfig')
       ELSE queues' = queues
    /\ UNCHANGED <<jobs, rlVars, chVars, svVars, rtVars, wiVars, lvVars>>

\* executeWithRateLimit, lines 85-86: this.queue.add for each of n batches.
PqExecute(n) ==
    /\ Len(jobs) + n <= MaxJobs
    /\ jobs' = StartQueued(
           jobs \o [k \in 1..n |-> [queue |-> Len(queues), pc |-> "queued"]],
           Len(queues), queues[Len(queues)])
    /\ UNCHANGED <<qconfig, queues, rlVars, chVars, svVars, rtVars, wiVars, lvVars>>

\* A job settles; its own queue starts the next one.
PqJobSettles(j) ==
    /\ jobs[j].pc = "running"
    /\ jobs' = StartQueued([jobs EXCEPT ![j].pc = "settled"],
                           jobs[j].queue, queues[jobs[j].queue])
    /\ UNCHANGED <<qconfig, queues, rlVars, chVars, svVars, rtVars, wiVars, lvVars>>

NextQueues ==
    \/ \E argument \in ConcurrencyArguments : PqInitialize(argument)
    \/ \E argument \in ConcurrencyArguments : PqUpdateConfig(argument)
    \/ \E n \in 1..MaxJobs : PqExecute(n)
    \/ \E j \in DOMAIN jobs : PqJobSettles(j)

SpecQueues == InitQueues /\ [][NextQueues]_vars

\* C29: when initialize() or updateConfig() is called while batches of an
\* earlier call are queued or running, the number of batch jobs in progress
\* across the whole service (old and new queue together) never exceeds the
\* concurrency configured at that moment.
C29_InProgressWithinConfiguredConcurrency ==
    Cardinality({j \in DOMAIN jobs : jobs[j].pc = "running"}) <= qconfig

(***************************************************************************)
(* LangChainVectorStoreService over a memory vector store.  A document is  *)
(* its metadata and its similarity to the query of the search, which the   *)
(* store computes from embeddings: [documentId, knowledgeId, score], score *)
(* in thousandths, knowledgeId absent or supplied.                         *)
(***************************************************************************)
Corpus ==
    { [documentId |-> "d1", knowledgeId |-> Supplied("k1"), score |-> 900],
      [documentId |-> "d2", knowledgeId |-> Supplied("k2"), score |-> 500],
      [documentId |-> "d2", knowledgeId |-> Absent, score |-> 50] }

DocumentIds == {"d1", "d2"}

DocumentLists(n) == UNION {[1..k -> Corpus] : k \in 0..n}

\* createDocuments(content, { documentId, ...metadata }): the chunks carry
\* the document's id.
ChunkLists(documentId) ==
    {docs \in DocumentLists(MaxAddDocs) :
        \A k \in 1..Len(docs) : docs[k].documentId = documentId}

LvConfigs == [maxResults : {LvDefaultMaxResults, 1},
              similarityThreshold : {LvDefaultThreshold}]

LvFilters ==
    {Absent} \cup
    {Supplied([knowledgeIds |-> kids, documentIds |-> dids]) :
        kids \in {<<>>, <<"k2">>}, dids \in {<<>>, <<"d2">>}}

LvRequests ==
    [maxResults : {Absent, Supplied(0), Supplied(1), Supplied(2)},
     similarityThreshold : {Absent, Supplied(0), Supplied(600)},
     filter : LvFilters]

\* x || fallback
OrElse(x, fallback) == IF x = 0 THEN fallback ELSE x

\* A destructuring default: the request's value, or the configured one.
Defaulted(field, configured) == IF field = Absent THEN configured ELSE field[1]

ListIncludes(list, x) == \E k \in 1..Len(list) : list[k] = x

\* MemoryVectorStore.similaritySearchWithScore(query, k): the k documents
\* with the highest similarity, highest first, ties in insertion order.
RankInStore(store, i) ==
    Cardinality({j \in 1..Len(store) :
        \/ store[j].score > store[i].score
        \/ store[j].score = store[i].score /\ j < i}) + 1

SimilaritySearchWithScore(store, k) ==
    [r \in 1..Min(k, Len(store)) |->
        store[CHOOSE i \in 1..Len(store) : RankInStore(store, i) = r]]

\* Lines 188-206: the metadata filter of searchSimilar.
PassesFilter(doc, filter) ==
    /\ Len(filter.knowledgeIds) > 0 =>
           /\ doc.knowledgeId # Absent
           /\ ListIncludes(filter.knowledgeIds, doc.knowledgeId[1])
    /\ Len(filter.documentIds) > 0 => ListIncludes(filter.documentIds, doc.documentId)

\* Lines 170-215: top-k from the store, then the threshold, then the filter.
SearchSimilarResults(store, cfg, request) ==
    LET maxResults == Defaulted(request.maxResults, cfg.maxResults)
        similarityThreshold == Defaulted(request.similarityThreshold, cfg.similarityThreshold)
        searchResults == SimilaritySearchWithScore(store, OrElse(maxResults, 10))
        aboveThreshold ==
            SelectSeq(searchResults,
                      LAMBDA d : d.score >= OrElse(similarityThreshold, LvDefaultThreshold))
    IN IF request.filter = Absent THEN aboveThreshold
       ELSE SelectSeq(aboveThreshold, LAMBDA d : PassesFilter(d, request.filter[1]))

\* `doc_${Date.now()}_${index}` for the documents of one addDocuments.
NewIds(time, n) == {[time |-> time, index |-> k - 1] : k \in 1..n}

\* this.documents.set(id, doc) for every document.
SetDocuments(map, time, docs) ==
    [id \in DOMAIN map \cup NewIds(time, Len(docs)) |->
        IF id \in NewIds(time, Len(docs)) THEN docs[id.index + 1] ELSE map[id]]

\* The ids of the map's documents whose metadata.documentId is documentId.
DocsToDelete(map, documentId) ==
    {id \in DOMAIN map : map[id].documentId = documentId}

\* this.documents.delete(id) for every id in ids.
DeleteDocuments(map, ids) == [id \in DOMAIN map \ ids |-> map[id]]

LvCallerIdle == lvCall = <<>>

InitStore == RlIdle /\ ChIdle /\ SvIdle /\ RtIdle /\ WiIdle /\ LvIdle /\ PqIdle

\* initialize, lines 71-99.
LvInitialize(cfg) ==
    /\ LvCallerIdle
    /\ ~lvInitialized
    /\ lvConfig' = cfg
    /\ lvInitialized' = TRUE
    /\ UNCHANGED <<vectorStore, documents, documentCount, now, lvCall,
                   rlVars, chVars, svVars, rtVars, wiVars, pqVars>>

\* The state addDocuments(docs) leaves when the store accepts the documents:
\* <<vectorStore, documents, documentCount>>.
AfterAddDocuments(store, map, count, time, docs) ==
    <<store \o docs, SetDocuments(map, time, docs), count + Len(docs)>>

\* addDocuments, lines 104-124; storeThrows: vectorStore.addDocuments rejects
\* and the error is rethrown.
LvAddDocuments(docs, storeThrows) ==
    /\ LvCallerIdle
    /\ lvInitialized
    /\ Len(vectorStore) + Len(docs) <= MaxStoreDocs
    /\ IF storeThrows
       THEN UNCHANGED <<vectorStore, documents, documentCount>>
       ELSE LET after == AfterAddDocuments(vectorStore, documents, documentCount, now, docs)
            IN /\ vectorStore' = after[1]
               /\ documents' = after[2]
               /\ documentCount' = after[3]
    /\ UNCHANGED <<lvInitialized, lvConfig, now, lvCall,
                   rlVars, chVars, svVars, rtVars, wiVars, pqVars>>

\* The map deleteDocument(documentId) leaves, lines 235-264.  The ids passed
\* to the store are the map's own ids, which the store never saw, so the store
\* keeps its documents; when the store's delete rejects, the map is kept too.
AfterDeleteDocument(map, documentId, storeThrows) ==
    IF DocsToDelete(map, documentId) # {} /\ ~storeThrows
    THEN DeleteDocuments(map, DocsToDelete(map, documentId))
    ELSE map

LvDeleteDocument(documentId, storeThrows) ==
    /\ LvCallerIdle
    /\ lvInitialized
    /\ documents' = AfterDeleteDocument(documents, documentId, storeThrows)
    /\ UNCHANGED <<lvInitialized, lvConfig, vectorStore, documentCount, now, lvCall,
                   rlVars, chVars, svVars, rtVars, wiVars, pqVars>>

\* indexDocument, lines 129-161: deleteDocument, createDocuments, addDocuments.
LvIndexDocument(documentId, chunks, deleteThrows, addThrows) ==
    /\ LvCallerIdle
    /\ lvInitialized
    /\ Len(vectorStore) + Len(chunks) <= MaxStoreDocs
    /\ LET map == AfterDeleteDocument(documents, documentId, deleteThrows)
       IN IF addThrows
          THEN /\ documents' = map
               /\ UNCHANGED <<vectorStore, documentCount>>
          ELSE LET after == AfterAddDocuments(vectorStore, map, documentCount, now, chunks)
               IN /\ vectorStore' = after[1]
                  /\ documents' = after[2]
                  /\ documentCount' = after[3]
    /\ UNCHANGED <<lvInitialized, lvConfig, now, lvCall,
                   rlVars, chVars, svVars, rtVars, wiVars, pqVars>>

\* clear, lines 322-347.
LvClear ==
    /\ LvCallerIdle
    /\ lvInitialized
    /\ vectorStore' = <<>>
    /\ documents' = <<>>
    /\ documentCount' = 0
    /\ UNCHANGED <<lvInitialized, lvConfig, now, lvCall,
                   rlVars, chVars, svVars, rtVars, wiVars, pqVars>>

\* searchSimilar, lines 166-230; storeThrows: the store's search rejects and
\* the catch returns no results.
LvSearchSimilar(request, storeThrows) ==
    /\ LvCallerIdle
    /\ lvInitialized
    /\ lvCall' = [request |-> request, failed |-> storeThrows,
                  results |-> IF storeThrows THEN <<>>
                              ELSE SearchSimilarResults(vectorStore, lvConfig, request)]
    /\ UNCHANGED <<lvInitialized, lvConfig, vectorStore, documents, documentCount, now,
                   rlVars, chVars, svVars, rtVars, wiVars, pqVars>>

\* The caller has its response and goes on.
LvCallerResumes ==
    /\ ~LvCallerIdle
    /\ lvCall' = <<>>
    /\ UNCHANGED <<lvInitialized, lvConfig, vectorStore, documents, documentCount, now,
                   rlVars, chVars, svVars, rtVars, wiVars, pqVars>>

\* A millisecond passes between two calls.
ClockAdvances ==
    /\ LvCallerIdle
    /\ now < MaxNow
    /\ now' = now + 1
    /\ UNCHANGED <<lvInitialized, lvConfig, vectorStore, documents, documentCount, lvCall,
                   rlVars, chVars, svVars, rtVars, wiVars, pqVars>>

NextStore ==
    \/ \E cfg \in LvConfigs : LvInitialize(cfg)
    \/ /\ LvCallerIdle
       /\ \E docs \in DocumentLists(MaxAddDocs), storeThrows \in BOOLEAN :
              LvAddDocuments(docs, storeThrows)
    \/ \E documentId \in DocumentIds, storeThrows \in BOOLEAN :
           LvDeleteDocument(documentId, storeThrows)
    \/ /\ LvCallerIdle
       /\ \E documentId \in DocumentIds, deleteThrows \in BOOLEAN, addThrows \in BOOLEAN :
              \E chunks \in ChunkLists(documentId) :
                  LvIndexDocument(documentId, chunks, deleteThrows, addThrows)
    \/ LvClear
    \/ /\ LvCallerIdle
       /\ \E request \in LvRequests, storeThrows \in BOOLEAN :
              LvSearchSimilar(request, storeThrows)
    \/ LvCallerResumes
    \/ ClockAdvances

SpecStore == InitStore /\ [][NextStore]_vars

(***************************************************************************)
(* Claims about LangChainVectorStoreService.                               *)
(***************************************************************************)
\* The documents of the store that satisfy the request's filter and reach
\* its threshold, in insertion order.
MatchingDocuments(store, cfg, request) ==
    LET similarityThreshold ==
            OrElse(Defaulted(request.similarityThreshold, cfg.similarityThreshold),
                   LvDefaultThreshold)
    IN SelectSeq(store, LAMBDA d : /\ d.score >= similarityThreshold
                                   /\ PassesFilter(d, request.filter[1]))

\* C27: searchSimilar with a knowledgeIds or documentIds filter returns the
\* min(maxResults, number of matching documents at or above the threshold)
\* highest-scoring documents among those that satisfy the filter, however
\* many documents outside the filter score higher.
C27_FilteredSearchReturnsTopMatching ==
    (/\ lvCall # <<>>
     /\ ~lvCall.failed
     /\ lvCall.request.filter # Absent
     /\ \/ Len(lvCall.request.filter[1].knowledgeIds) > 0
        \/ Len(lvCall.request.filter[1].documentIds) > 0) =>
        lvCall.results =
            SimilaritySearchWithScore(
                MatchingDocuments(vectorStore, lvConfig, lvCall.request),
                OrElse(Defaulted(lvCall.request.maxResults, lvConfig.maxResults), 10))

\* C30: after any sequence of addDocuments, indexDocument, deleteDocument and
\* clear on an initialized service, getStats().totalChunks (documentCount)
\* equals the number of chunks in the document map.
C30_TotalChunksIsMapSize ==
    lvInitialized => documentCount = Cardinality(DOMAIN documents)

=============================================================================
